---- MODULE Spec2Model ----
(***************************************************************************)
(* The fault-injection page (InjectPage) of the B4-Lab frontend: the       *)
(* topology snapshot and its session persistence, the ordered list of      *)
(* fault configurations, the handlers that add, remove and edit entries,   *)
(* the topology refresh with its re-resolution effect, and the batch       *)
(* submission with its completion handlers.                                *)
(***************************************************************************)
EXTENDS Integers, Sequences, FiniteSets, TLC

VARIABLES
    containers,            \* useState<string[]>            (in-memory snapshot)
    links,                 \* useState<string[][]>
    interfacesByContainer, \* useState<Record<string,string[]>>
    storage,               \* sessionStorage: the three topology keys
    isLoadingTopology,
    isInjecting,
    message,               \* MessageState {text, type}
    detailedResults,       \* DetailedMessage[]
    faultConfigs,          \* FaultConfig[]
    localConfig,           \* FaultConfigBlock.localConfig of each rendered block, by entry id
    gets,                  \* number of GET /insert/topology requests in flight
    posts,                 \* bodies of the POST /insert/fault requests in flight
    sent,                  \* number of POST /insert/fault requests sent so far
    mounted,               \* the mount effects of the current session have run
    nextId,                \* uuidv4(): the next identifier never handed out
    quota,                 \* edits, refreshes, submissions and new ids still explored
    last,                  \* the handler that ran last, with the id, field or response it was given
    \* MeasurePage
    isRunning,             \* boolean
    isLoadingStatus,       \* boolean
    isOperating,           \* boolean
    isLoadingChartData,    \* boolean
    allMetricsData,        \* MetricDataPoint[], by its length
    pollingIntervalRef,    \* pollingIntervalRef.current: a timer id, 0 for null
    timers,                \* ids of the interval timers that are active
    nextTimer,             \* the id the next setInterval returns
    statusRequests,        \* GET /measure/status in flight: not yet served, served with true / false
    chartRequests,         \* number of GET /measure/csv_data requests in flight
    operations,            \* POST /measure/start and /measure/stop in flight
    timeouts,              \* pending setTimeout(fetchAndProcessChartData, 1000), by the callback's closure
    server,                \* the measurement server: is_running and the number of points of its CSV
    measureMounted,        \* MeasurePage is on screen
    budget                 \* effect runs, operations, ticks and failed status requests still explored

measureVars == << isRunning, isLoadingStatus, isOperating, isLoadingChartData,
                  allMetricsData, pollingIntervalRef, timers, nextTimer, statusRequests,
                  chartRequests, operations, timeouts, server, measureMounted, budget >>

injectVars == << containers, links, interfacesByContainer, storage, isLoadingTopology,
                 isInjecting, message, detailedResults, faultConfigs, localConfig, gets,
                 posts, sent, mounted, nextId, quota >>

vars == << injectVars, last, measureVars >>

-----------------------------------------------------------------------------
(* Bounds of the model *)

MaxIds == 2        \* identifiers uuidv4() hands out after the first in one behaviour
MaxEdits == 2      \* field edits in one behaviour
MaxFetches == 3    \* topology refreshes started in one behaviour
MaxSubmits == 2    \* batch submissions started in one behaviour
MaxEffectRuns == 3 \* re-runs of MeasurePage's effect in one behaviour
MaxOperations == 2 \* start and stop operations started in one behaviour
MaxTicks == 1      \* ticks of MeasurePage's polling timer in one behaviour
MaxPoints == 1     \* points the measurement server appends to its CSV
MaxStatusFailures == 1 \* failed GET /measure/status requests in one behaviour

\* A behaviour spends the whole of one bound and at most one unit of the
\* others, or starts a submission between two refreshes.
Quotas ==
    { [ edits |-> MaxEdits, fetches |-> 1, submits |-> 1, ids |-> 0 ],
      [ edits |-> 1, fetches |-> MaxFetches, submits |-> 0, ids |-> 1 ],
      [ edits |-> 1, fetches |-> 1, submits |-> MaxSubmits, ids |-> 1 ],
      [ edits |-> 1, fetches |-> 1, submits |-> 1, ids |-> MaxIds ],
      [ edits |-> 0, fetches |-> MaxFetches - 1, submits |-> 1, ids |-> 0 ] }

-----------------------------------------------------------------------------
(* Values *)

NONE == -1         \* the empty string '' held by a numeric input field

Kinds == { "link_down", "link_up", "node_stop", "node_start", "node_pause",
           "node_unpause", "add_latency", "limit_bandwidth", "tc_clear",
           "routing_loop_timed" }

DEFAULT_FAULT_CONFIG ==
    [ fault_type |-> "link_down",
      target_node |-> "",
      target_interface |-> "",
      target_link |-> "",
      latency_ms |-> 100,
      jitter_ms |-> NONE,
      correlation_percent |-> NONE,
      bandwidth_rate_kbit |-> 1000,
      bandwidth_burst_bytes |-> "",
      bandwidth_latency_ms |-> "50ms",
      loop_node1 |-> "",
      loop_node2 |-> "",
      loop_dummy_dest_ip |-> "192.168.7.2/32",
      loop_duration_sec |-> 10,
      loop_ping_target_ip |-> "192.168.7.2/32",
      loop_ping_count |-> 5 ]

Fields == DOMAIN DEFAULT_FAULT_CONFIG

WithId(cfg, id) == [ f \in Fields \cup {"id"} |-> IF f = "id" THEN id ELSE cfg[f] ]

EmptyMap == [ n \in {} |-> << >> ]

\* The responses of GET /insert/topology the model draws from.
Topologies ==
    { [ containers |-> << "r2", "r1" >>,
        links |-> << << "r1", "r2" >> >>,
        interfaces_by_container |-> [ n \in {"r1", "r2"} |->
            IF n = "r1" THEN << "eth2", "eth1" >> ELSE << "eth1", "eth2" >> ] ],
      [ containers |-> << "r1" >>,
        links |-> << >>,
        interfaces_by_container |-> [ n \in {"r1"} |-> << "eth2" >> ] ],
      [ containers |-> << >>,
        links |-> << >>,
        interfaces_by_container |-> EmptyMap ] }

NoSnapshot == [ stored |-> FALSE ]

-----------------------------------------------------------------------------
(* Helpers of the page *)

ids(cfgs) == { cfgs[i].id : i \in 1..Len(cfgs) }

\* The entry with identifier id, in a list that holds one.
entryOf(cfgs, id) == cfgs[CHOOSE i \in 1..Len(cfgs) : cfgs[i].id = id]

includes(s, x) == \E i \in 1..Len(s) : s[i] = x

\* `${l[0]}|${l[1]}`
LinkStr(l) == l[1] \o "|" \o l[2]

\* interfacesByContainer[node] || []
InterfacesOf(ifs, node) == IF node \in DOMAIN ifs THEN ifs[node] ELSE << >>

firstContainer(cs) == IF Len(cs) > 0 THEN cs[1] ELSE ""

\* Variant of secondContainer that always answers the first node.
secondContainer_first(cs) == IF Len(cs) > 0 THEN cs[1] ELSE ""

secondContainer(cs) == IF Len(cs) > 1 THEN cs[2] ELSE IF Len(cs) > 0 THEN cs[1] ELSE ""

firstLink(ls) == IF Len(ls) > 0 THEN LinkStr(ls[1]) ELSE ""

firstInterface(ifs, node) ==
    IF Len(InterfacesOf(ifs, node)) > 0 THEN InterfacesOf(ifs, node)[1] ELSE ""

\* Variant of updateOrDefaultNode that defaults to the last node.
updateOrDefaultNode_last(cs, currentNode) ==
    IF currentNode # "" THEN currentNode ELSE IF Len(cs) > 0 THEN cs[Len(cs)] ELSE ""

\* currentNode || (containers.length > 0 ? containers[0] : '')
updateOrDefaultNode(cs, currentNode) ==
    IF currentNode # "" THEN currentNode ELSE firstContainer(cs)

\* currentLink || (links.length > 0 ? `${links[0][0]}|${links[0][1]}` : '')
updateOrDefaultLink(ls, currentLink) ==
    IF currentLink # "" THEN currentLink ELSE firstLink(ls)

\* Variant of resolveFetched that re-defaults the interface on every refresh,
\* whether or not the current one is still valid.
resolveFetched_redefault(fc, cs, ls, ifs) ==
    [ fc EXCEPT
        !.target_node = updateOrDefaultNode(cs, fc.target_node),
        !.target_link = updateOrDefaultLink(ls, fc.target_link),
        !.target_interface = firstInterface(ifs, updateOrDefaultNode(cs, fc.target_node)),
        !.loop_node1 = IF fc.loop_node1 # "" THEN fc.loop_node1 ELSE firstContainer(cs),
        !.loop_node2 = IF fc.loop_node2 # "" THEN fc.loop_node2 ELSE secondContainer(cs) ]

\* The callback of prevConfigs.map(...) in setAndStoreTopologyData: one entry
\* resolved against the fetched topology.
resolveFetched(fc, cs, ls, ifs) ==
    LET newTargetNode == updateOrDefaultNode(cs, fc.target_node)
        newNodeInterfaces == InterfacesOf(ifs, newTargetNode)
        newTargetInterface ==
            IF Len(newNodeInterfaces) > 0
               /\ (fc.target_interface = "" \/ ~includes(newNodeInterfaces, fc.target_interface))
            THEN newNodeInterfaces[1]
            ELSE IF Len(newNodeInterfaces) = 0 THEN "" ELSE fc.target_interface
    IN  [ fc EXCEPT
            !.target_node = newTargetNode,
            !.target_link = updateOrDefaultLink(ls, fc.target_link),
            !.target_interface = newTargetInterface,
            !.loop_node1 = IF fc.loop_node1 # "" THEN fc.loop_node1 ELSE firstContainer(cs),
            !.loop_node2 = IF fc.loop_node2 # "" THEN fc.loop_node2 ELSE secondContainer(cs) ]

\* Variant of resolveEffect that starts from the default entry, as the
\* effect's branch for a single untargeted entry does.
resolveEffect_resetting(fc, cs, ls, ifs) ==
    [ WithId(DEFAULT_FAULT_CONFIG, fc.id) EXCEPT
        !.target_node = updateOrDefaultNode(cs, fc.target_node),
        !.target_link = updateOrDefaultLink(ls, fc.target_link),
        !.target_interface = firstInterface(ifs, updateOrDefaultNode(cs, fc.target_node)),
        !.loop_node1 = updateOrDefaultNode(cs, fc.target_node),
        !.loop_node2 = secondContainer(cs) ]

\* The callback of prevConfigs.map(...) in the re-resolution effect.
resolveEffect(fc, cs, ls, ifs) ==
    LET newTargetNode == updateOrDefaultNode(cs, fc.target_node)
        newNodeInterfaces == InterfacesOf(ifs, newTargetNode)
        newTargetInterface ==
            IF Len(newNodeInterfaces) > 0
               /\ (fc.target_interface = "" \/ ~includes(newNodeInterfaces, fc.target_interface))
            THEN newNodeInterfaces[1]
            ELSE IF Len(newNodeInterfaces) = 0 /\ fc.target_interface # "" THEN ""
            ELSE fc.target_interface
    IN  [ fc EXCEPT
            !.target_node = newTargetNode,
            !.target_link = updateOrDefaultLink(ls, fc.target_link),
            !.target_interface = newTargetInterface,
            !.loop_node1 = IF fc.loop_node1 # "" THEN fc.loop_node1 ELSE newTargetNode,
            !.loop_node2 = IF fc.loop_node2 # "" THEN fc.loop_node2 ELSE secondContainer(cs) ]

\* Variant of seededConfig that seeds the targets from the last node, not
\* the first.
seededConfig_lastNode(id, cs, ls, ifs) ==
    LET lastContainer == IF Len(cs) > 0 THEN cs[Len(cs)] ELSE ""
    IN  [ WithId(DEFAULT_FAULT_CONFIG, id) EXCEPT
            !.target_node = lastContainer,
            !.target_link = firstLink(ls),
            !.target_interface = firstInterface(ifs, lastContainer),
            !.loop_node1 = lastContainer,
            !.loop_node2 = secondContainer(cs) ]

\* A default entry seeded from the topology (handleAddFaultConfig, and the
\* re-seed of handleRemoveFaultConfig).
seededConfig(id, cs, ls, ifs) ==
    [ WithId(DEFAULT_FAULT_CONFIG, id) EXCEPT
        !.target_node = firstContainer(cs),
        !.target_link = firstLink(ls),
        !.target_interface = firstInterface(ifs, firstContainer(cs)),
        !.loop_node1 = firstContainer(cs),
        !.loop_node2 = secondContainer(cs) ]

\* Variant of reResolveEffect that re-resolves against an empty topology too.
reResolveEffect_always(prevConfigs, cs, ls, ifs) ==
    [ i \in 1..Len(prevConfigs) |-> resolveEffect(prevConfigs[i], cs, ls, ifs) ]

\* The useEffect on [containers, links, interfacesByContainer]: the new value
\* of faultConfigs.
reResolveEffect(prevConfigs, cs, ls, ifs) ==
    IF Len(cs) > 0 \/ Cardinality(DOMAIN ifs) > 0 \/ Len(ls) > 0
    THEN IF Len(prevConfigs) = 1 /\ prevConfigs[1].target_node = ""
            /\ prevConfigs[1].target_link = "" /\ prevConfigs[1].target_interface = ""
         THEN << [ WithId(DEFAULT_FAULT_CONFIG, prevConfigs[1].id) EXCEPT
                     !.target_node = updateOrDefaultNode(cs, ""),
                     !.target_link = updateOrDefaultLink(ls, ""),
                     !.target_interface = firstInterface(ifs, updateOrDefaultNode(cs, "")),
                     !.loop_node1 = updateOrDefaultNode(cs, ""),
                     !.loop_node2 = secondContainer(cs) ] >>
         ELSE [ i \in 1..Len(prevConfigs) |-> resolveEffect(prevConfigs[i], cs, ls, ifs) ]
    ELSE prevConfigs

\* setAndStoreTopologyData(data), data not null: the new value of faultConfigs
\* once the handler and the effect its state changes trigger have run.
setAndStoreTopologyData(prevConfigs, data) ==
    reResolveEffect(
        [ i \in 1..Len(prevConfigs) |->
            resolveFetched(prevConfigs[i], data.containers, data.links,
                           data.interfaces_by_container) ],
        data.containers, data.links, data.interfaces_by_container)

\* Variant of noTopologyDataLoaded that does not look at isLoadingTopology.
noTopologyDataLoaded_ignoringLoading ==
    Len(containers) = 0 /\ Cardinality(DOMAIN interfacesByContainer) = 0

\* containers.length === 0 && Object.keys(interfacesByContainer).length === 0
\*   && !isLoadingTopology
noTopologyDataLoaded ==
    Len(containers) = 0 /\ Cardinality(DOMAIN interfacesByContainer) = 0
    /\ ~isLoadingTopology

\* Variant of handleFaultConfigChange that empties target_link when the kind
\* is changed.
handleFaultConfigChange_clearing(prevConfigs, id, field, value) ==
    [ i \in 1..Len(prevConfigs) |->
        IF prevConfigs[i].id = id
        THEN IF field = "target_node" /\ prevConfigs[i].fault_type # "routing_loop_timed"
             THEN [ prevConfigs[i] EXCEPT
                      ![field] = value,
                      !.target_interface = firstInterface(interfacesByContainer, value) ]
             ELSE IF field = "fault_type"
             THEN [ prevConfigs[i] EXCEPT ![field] = value, !.target_link = "" ]
             ELSE [ prevConfigs[i] EXCEPT ![field] = value ]
        ELSE prevConfigs[i] ]

\* Variant of handleFaultConfigChange that does not compare ids: the field
\* is written in every entry.
handleFaultConfigChange_everyEntry(prevConfigs, id, field, value) ==
    [ i \in 1..Len(prevConfigs) |-> [ prevConfigs[i] EXCEPT ![field] = value ] ]

\* handleFaultConfigChange(id, field, value): the new value of faultConfigs.
handleFaultConfigChange(prevConfigs, id, field, value) ==
    [ i \in 1..Len(prevConfigs) |->
        IF prevConfigs[i].id = id
        THEN IF field = "target_node" /\ prevConfigs[i].fault_type # "routing_loop_timed"
             THEN [ prevConfigs[i] EXCEPT
                      ![field] = value,
                      !.target_interface = firstInterface(interfacesByContainer, value) ]
             ELSE [ prevConfigs[i] EXCEPT ![field] = value ]
        ELSE prevConfigs[i] ]

\* Variant of handleLocalChange that keeps the interface of an entry when the
\* node it is moved to has it.
handleLocalChange_keepingMember(prevConfigs, id, field, value) ==
    IF field = "target_node"
    THEN [ i \in 1..Len(prevConfigs) |->
            IF prevConfigs[i].id = id
            THEN [ prevConfigs[i] EXCEPT
                     !.target_node = value,
                     !.target_interface =
                        IF includes(InterfacesOf(interfacesByContainer, value), @)
                        THEN @ ELSE firstInterface(interfacesByContainer, value) ]
            ELSE prevConfigs[i] ]
    ELSE handleFaultConfigChange(prevConfigs, id, field, value)

\* FaultConfigBlock.handleLocalChange(field, value) of the block showing the
\* entry `id`: the new value of faultConfigs after its onConfigChange calls.
handleLocalChange(prevConfigs, id, field, value) ==
    IF field = "target_node"
    THEN handleFaultConfigChange(
             handleFaultConfigChange(prevConfigs, id, field, value),
             id, "target_interface", firstInterface(interfacesByContainer, value))
    ELSE handleFaultConfigChange(prevConfigs, id, field, value)

\* The flags of FaultConfigBlock that decide which controls are rendered.
showLinkTargetFields(fc) == fc.fault_type \in {"link_down", "link_up"}

showInterfaceSelector(fc) ==
    fc.fault_type \in {"add_latency", "limit_bandwidth", "tc_clear"} \/ showLinkTargetFields(fc)

Range(s) == { s[i] : i \in 1..Len(s) }

NumInputs == { NONE, 0, 20 }

\* The values the rendered, enabled control of `field` lets the user choose.
Options(fc, field) ==
    CASE field = "fault_type" -> Kinds
      [] field = "target_node" ->
            IF fc.fault_type # "routing_loop_timed" THEN Range(containers) ELSE {}
      [] field = "target_interface" ->
            IF showInterfaceSelector(fc)
            THEN Range(InterfacesOf(interfacesByContainer, fc.target_node)) ELSE {}
      [] field = "target_link" ->
            IF showLinkTargetFields(fc) THEN { LinkStr(links[i]) : i \in 1..Len(links) } ELSE {}
      [] field \in {"latency_ms", "jitter_ms", "correlation_percent"} ->
            IF fc.fault_type = "add_latency" THEN NumInputs ELSE {}
      [] field = "bandwidth_rate_kbit" ->
            IF fc.fault_type = "limit_bandwidth" THEN NumInputs ELSE {}
      [] field = "bandwidth_burst_bytes" ->
            IF fc.fault_type = "limit_bandwidth" THEN {"", "32kb"} ELSE {}
      [] field = "bandwidth_latency_ms" ->
            IF fc.fault_type = "limit_bandwidth" THEN {"", "10ms"} ELSE {}
      [] field \in {"loop_node1", "loop_node2"} ->
            IF fc.fault_type = "routing_loop_timed" THEN Range(containers) ELSE {}
      [] field \in {"loop_dummy_dest_ip", "loop_ping_target_ip"} ->
            IF fc.fault_type = "routing_loop_timed" THEN {"", "10.9.9.9/32"} ELSE {}
      [] field \in {"loop_duration_sec", "loop_ping_count"} ->
            IF fc.fault_type = "routing_loop_timed" THEN NumInputs ELSE {}

\* JavaScript's truthiness and Number() of a numeric input's value.
Truthy(v) == v # NONE /\ v # 0

Number(v) == IF v = NONE THEN 0 ELSE v

Opt(cond, key, val) == IF cond THEN key :> val ELSE EmptyMap

\* Variant of singlePayload that sends target_link for every kind.
singlePayload_linkAlways(fc) ==
    ("fault_type" :> fc.fault_type)
    @@ Opt(fc.target_node # "", "target_node", fc.target_node)
    @@ Opt(fc.target_interface # "", "target_interface", fc.target_interface)
    @@ ("target_link" :> fc.target_link)

\* The callback of faultConfigs.map(...) in handleSubmitAllFaults: the wire
\* payload of one entry, a record holding only the keys that were assigned.
singlePayload(fc) ==
    ("fault_type" :> fc.fault_type)
    @@ Opt(fc.target_node # "", "target_node", fc.target_node)
    @@ Opt(fc.target_interface # "", "target_interface", fc.target_interface)
    @@ (IF fc.fault_type \in {"link_down", "link_up"}
        THEN "target_link" :> fc.target_link
        ELSE IF fc.fault_type = "add_latency"
        THEN ("latency_ms" :> Number(fc.latency_ms))
             @@ Opt(Truthy(fc.jitter_ms), "jitter_ms", Number(fc.jitter_ms))
             @@ Opt(Truthy(fc.correlation_percent), "correlation_percent",
                    Number(fc.correlation_percent))
        ELSE IF fc.fault_type = "limit_bandwidth"
        THEN ("bandwidth_rate_kbit" :> Number(fc.bandwidth_rate_kbit))
             @@ Opt(fc.bandwidth_burst_bytes # "", "bandwidth_burst_bytes",
                    fc.bandwidth_burst_bytes)
             @@ Opt(fc.bandwidth_latency_ms # "", "bandwidth_latency_ms",
                    fc.bandwidth_latency_ms)
        ELSE IF fc.fault_type = "routing_loop_timed"
        THEN ("loop_node1" :> fc.loop_node1)
             @@ ("loop_node2" :> fc.loop_node2)
             @@ ("loop_dummy_dest_ip" :> fc.loop_dummy_dest_ip)
             @@ ("loop_duration_sec" :> Number(fc.loop_duration_sec))
             @@ Opt(fc.loop_ping_target_ip # "", "loop_ping_target_ip",
                    fc.loop_ping_target_ip)
             @@ Opt(Truthy(fc.loop_ping_count), "loop_ping_count",
                    Number(fc.loop_ping_count))
        ELSE EmptyMap)

\* Variant of payloadsToSubmit that sends the payloads in reverse order.
payloadsToSubmit_reversed(cfgs) ==
    [ i \in 1..Len(cfgs) |-> singlePayload(cfgs[Len(cfgs) + 1 - i]) ]

payloadsToSubmit(cfgs) == [ i \in 1..Len(cfgs) |-> singlePayload(cfgs[i]) ]

\* Variant of blockSync without the effect that copies initialConfig into
\* localConfig.
blockSync_noEffect(prevLocal, newConfigs, rewritten) ==
    [ id \in ids(newConfigs) |->
        IF id \notin DOMAIN prevLocal THEN entryOf(newConfigs, id) ELSE prevLocal[id] ]

\* The blocks after a render of `newConfigs`: a block new to the list starts
\* from useState(initialConfig); in a block whose entry is a new object
\* (`rewritten`) the effect on [initialConfig] copies it into localConfig;
\* the other blocks keep their localConfig.
blockSync(prevLocal, newConfigs, rewritten) ==
    [ id \in ids(newConfigs) |->
        IF id \notin DOMAIN prevLocal \/ id \in rewritten
        THEN entryOf(newConfigs, id)
        ELSE prevLocal[id] ]

\* setLocalConfig(prev => ({ ...prev, ...newConfigPart [, target_interface] }))
\* in handleLocalChange of the block showing the entry `id`.
setLocalConfig(prevLocal, id, field, value) ==
    [ prevLocal EXCEPT ![id] =
        IF field = "target_node"
        THEN [ @ EXCEPT ![field] = value,
                        !.target_interface = firstInterface(interfacesByContainer, value) ]
        ELSE [ @ EXCEPT ![field] = value ] ]

\* The condition under which the re-resolution effect rewrites the entries.
effectRewrites(cs, ls, ifs) == Len(cs) > 0 \/ Cardinality(DOMAIN ifs) > 0 \/ Len(ls) > 0

\* The disabled attributes of the page's buttons and of the blocks' controls.
\* Variant of fetchDisabled that ignores the refresh in flight.
fetchDisabled_ignoringLoading == isInjecting

fetchDisabled == isLoadingTopology \/ isInjecting

isFormDisabled == isInjecting

addDisabled == isInjecting \/ noTopologyDataLoaded

\* Variant of submitDisabled that ignores the submission in flight.
submitDisabled_ignoringInjecting == Len(faultConfigs) = 0 \/ noTopologyDataLoaded

submitDisabled == isInjecting \/ Len(faultConfigs) = 0 \/ noTopologyDataLoaded

-----------------------------------------------------------------------------
(* Initial state: the useState initialisers of a session with nothing stored *)

\* MeasurePage before it is put on screen: its useState initialisers, no
\* timer, no request, and a server that is not measuring.
MeasurePageInit ==
    /\ isRunning = FALSE
    /\ isLoadingStatus = TRUE
    /\ isOperating = FALSE
    /\ isLoadingChartData = TRUE
    /\ allMetricsData = 0
    /\ pollingIntervalRef = 0
    /\ timers = {}
    /\ nextTimer = 1
    /\ statusRequests = [ pending |-> 0, yes |-> 0, no |-> 0 ]
    /\ chartRequests = 0
    /\ operations = << >>
    /\ timeouts = << >>
    /\ server = [ is_running |-> FALSE, points |-> 0 ]
    /\ measureMounted = FALSE
    /\ budget = [ effects |-> MaxEffectRuns, operations |-> MaxOperations,
                  ticks |-> MaxTicks, statusFailures |-> MaxStatusFailures ]

Init ==
    /\ containers = << >>
    /\ links = << >>
    /\ interfacesByContainer = EmptyMap
    /\ storage = NoSnapshot
    /\ isLoadingTopology = FALSE
    /\ isInjecting = FALSE
    /\ message = [ text |-> "", type |-> "" ]
    /\ detailedResults = << >>
    /\ faultConfigs = << WithId(DEFAULT_FAULT_CONFIG, 1) >>
    /\ localConfig = [ id \in {1} |-> WithId(DEFAULT_FAULT_CONFIG, 1) ]
    /\ gets = 0
    /\ posts = << >>
    /\ sent = 0
    /\ mounted = FALSE
    /\ nextId = 2
    /\ quota \in Quotas
    /\ last = [ op |-> "init", id |-> 0, field |-> "", response |-> "" ]
    /\ MeasurePageInit

-----------------------------------------------------------------------------
(* The collaborators' answers *)

OverallStatuses == { "success", "error", "" }

\* The per-item results the model draws from for a request of n items:
\* n results of alternating status, n failures, and a short answer of n - 1
\* successes.
DetailShapes == { "mixed", "failed", "short" }

detailsLength(shape, n) == IF shape = "short" THEN n - 1 ELSE n

itemStatus(shape, i) ==
    CASE shape = "mixed" -> IF i % 2 = 1 THEN "success" ELSE "error"
      [] shape = "failed" -> "error"
      [] shape = "short" -> "success"

\* The bodies POST /insert/fault may answer a request `body` with: one result
\* per submitted item, in order, for the first items.
Responses(body) ==
    { [ message |-> "batch processed", status |-> st,
        details |-> [ i \in 1..detailsLength(shape, Len(body)) |->
            [ fault_type |-> body[i].fault_type, status |-> itemStatus(shape, i),
              message |-> "result " \o ToString(i),
              target_display |-> IF "target_node" \in DOMAIN body[i]
                                 THEN body[i].target_node ELSE "" ] ] ] :
      st \in OverallStatuses, shape \in DetailShapes }

-----------------------------------------------------------------------------
(* Actions: one per handler *)

\* The effects of the first render: the re-resolution effect against the
\* snapshot the useState initialisers read from sessionStorage.
Mount ==
    /\ ~mounted
    /\ mounted' = TRUE
    /\ faultConfigs' = reResolveEffect(faultConfigs, containers, links, interfacesByContainer)
    /\ localConfig' = blockSync(localConfig, faultConfigs',
            IF effectRewrites(containers, links, interfacesByContainer)
            THEN ids(faultConfigs') ELSE {})
    /\ last' = [ op |-> "mount", id |-> 0, field |-> "", response |-> "" ]
    /\ UNCHANGED measureVars
    /\ UNCHANGED << containers, links, interfacesByContainer, storage, isLoadingTopology,
                    isInjecting, message, detailedResults, gets, posts, sent, nextId, quota >>

\* fetchTopology up to its await.
FetchTopology ==
    /\ mounted
    /\ ~fetchDisabled
    /\ quota.fetches > 0
    /\ isLoadingTopology' = TRUE
    /\ message' = [ text |-> "", type |-> "" ]
    /\ gets' = gets + 1
    /\ quota' = [ quota EXCEPT !.fetches = @ - 1 ]
    /\ last' = [ op |-> "fetchTopology", id |-> 0, field |-> "", response |-> "" ]
    /\ UNCHANGED measureVars
    /\ UNCHANGED << containers, links, interfacesByContainer, storage, isInjecting,
                    detailedResults, faultConfigs, localConfig, posts, sent, mounted, nextId >>

\* fetchTopology after its await, the request answered with `data`.
FetchTopologyOk(data) ==
    /\ mounted
    /\ gets > 0
    /\ gets' = gets - 1
    /\ containers' = data.containers
    /\ links' = data.links
    /\ interfacesByContainer' = data.interfaces_by_container
    /\ storage' = [ stored |-> TRUE, containers |-> data.containers, links |-> data.links,
                    interfacesByContainer |-> data.interfaces_by_container ]
    /\ faultConfigs' = setAndStoreTopologyData(faultConfigs, data)
    /\ localConfig' = blockSync(localConfig, faultConfigs', ids(faultConfigs'))
    /\ message' = [ text |-> "topology updated", type |-> "success" ]
    /\ isLoadingTopology' = FALSE
    /\ last' = [ op |-> "fetchTopologyOk", id |-> 0, field |-> "", response |-> "" ]
    /\ UNCHANGED measureVars
    /\ UNCHANGED << isInjecting, detailedResults, posts, sent, mounted, nextId, quota >>

\* Variant of FetchTopologyFail that leaves the persisted snapshot in place.
FetchTopologyFail_keepingStored ==
    /\ mounted
    /\ gets > 0
    /\ gets' = gets - 1
    /\ message' = [ text |-> "topology fetch failed", type |-> "error" ]
    /\ containers' = << >>
    /\ links' = << >>
    /\ interfacesByContainer' = EmptyMap
    /\ faultConfigs' = reResolveEffect(faultConfigs, << >>, << >>, EmptyMap)
    /\ localConfig' = blockSync(localConfig, faultConfigs', {})
    /\ isLoadingTopology' = FALSE
    /\ last' = [ op |-> "fetchTopologyFail", id |-> 0, field |-> "", response |-> "" ]
    /\ UNCHANGED measureVars
    /\ UNCHANGED << storage, isInjecting, detailedResults, posts, sent, mounted, nextId, quota >>

\* fetchTopology after its await, the request failed.
FetchTopologyFail ==
    /\ mounted
    /\ gets > 0
    /\ gets' = gets - 1
    /\ message' = [ text |-> "topology fetch failed", type |-> "error" ]
    /\ containers' = << >>
    /\ links' = << >>
    /\ interfacesByContainer' = EmptyMap
    /\ storage' = NoSnapshot
    /\ faultConfigs' = reResolveEffect(faultConfigs, << >>, << >>, EmptyMap)
    /\ localConfig' = blockSync(localConfig, faultConfigs', {})
    /\ isLoadingTopology' = FALSE
    /\ last' = [ op |-> "fetchTopologyFail", id |-> 0, field |-> "", response |-> "" ]
    /\ UNCHANGED measureVars
    /\ UNCHANGED << isInjecting, detailedResults, posts, sent, mounted, nextId, quota >>

\* The add button.
HandleAddFaultConfig ==
    /\ mounted
    /\ ~addDisabled
    /\ quota.ids > 0
    /\ faultConfigs' = Append(faultConfigs,
                              seededConfig(nextId, containers, links, interfacesByContainer))
    /\ localConfig' = blockSync(localConfig, faultConfigs', {})
    /\ nextId' = nextId + 1
    /\ quota' = [ quota EXCEPT !.ids = @ - 1 ]
    /\ last' = [ op |-> "add", id |-> nextId, field |-> "", response |-> "" ]
    /\ UNCHANGED measureVars
    /\ UNCHANGED << containers, links, interfacesByContainer, storage, isLoadingTopology,
                    isInjecting, message, detailedResults, gets, posts, sent, mounted >>

\* Variant of handleRemoveFaultConfig that only filters, without the re-seed.
handleRemoveFaultConfig_noReseed(prevConfigs, idToRemove, freshId) ==
    SelectSeq(prevConfigs, LAMBDA fc : fc.id # idToRemove)

\* Variant of handleRemoveFaultConfig that gives the re-seeded entry the id
\* of the entry it replaces.
handleRemoveFaultConfig_reusingId(prevConfigs, idToRemove, freshId) ==
    LET newConfigs == SelectSeq(prevConfigs, LAMBDA fc : fc.id # idToRemove)
    IN  IF Len(newConfigs) = 0
        THEN << seededConfig(idToRemove, containers, links, interfacesByContainer) >>
        ELSE newConfigs

\* handleRemoveFaultConfig(idToRemove): the new value of faultConfigs.
handleRemoveFaultConfig(prevConfigs, idToRemove, freshId) ==
    LET newConfigs == SelectSeq(prevConfigs, LAMBDA fc : fc.id # idToRemove)
    IN  IF Len(newConfigs) = 0
        THEN << seededConfig(freshId, containers, links, interfacesByContainer) >>
        ELSE newConfigs

\* The remove button of the block showing the entry `id`.
HandleRemoveFaultConfig(id) ==
    /\ mounted
    /\ ~isFormDisabled
    /\ \E i \in 1..Len(faultConfigs) : faultConfigs[i].id = id
    /\ LET reseeds == \A i \in 1..Len(faultConfigs) : faultConfigs[i].id = id
       IN  /\ reseeds => quota.ids > 0
           /\ nextId' = IF reseeds THEN nextId + 1 ELSE nextId
           /\ quota' = IF reseeds THEN [ quota EXCEPT !.ids = @ - 1 ] ELSE quota
    /\ faultConfigs' = handleRemoveFaultConfig(faultConfigs, id, nextId)
    /\ localConfig' = blockSync(localConfig, faultConfigs', {})
    /\ last' = [ op |-> "remove", id |-> id, field |-> "", response |-> "" ]
    /\ UNCHANGED measureVars
    /\ UNCHANGED << containers, links, interfacesByContainer, storage, isLoadingTopology,
                    isInjecting, message, detailedResults, gets, posts, sent, mounted >>

\* A control of the block showing entry i changes `field` to `value`.
HandleLocalChange(i, field, value) ==
    /\ mounted
    /\ ~isFormDisabled
    /\ quota.edits > 0
    /\ value \in Options(faultConfigs[i], field)
    /\ value # faultConfigs[i][field]      \* onChange fires for another value only
    /\ faultConfigs' = handleLocalChange(faultConfigs, faultConfigs[i].id, field, value)
    /\ localConfig' = blockSync(setLocalConfig(localConfig, faultConfigs[i].id, field, value),
                                faultConfigs', {faultConfigs[i].id})
    /\ quota' = [ quota EXCEPT !.edits = @ - 1 ]
    /\ last' = [ op |-> "change", id |-> faultConfigs[i].id, field |-> field, response |-> "" ]
    /\ UNCHANGED measureVars
    /\ UNCHANGED << containers, links, interfacesByContainer, storage, isLoadingTopology,
                    isInjecting, message, detailedResults, gets, posts, sent, mounted, nextId >>

\* Variant of HandleSubmitAllFaults that leaves the displayed results of the
\* previous batch in place.
HandleSubmitAllFaults_keepingResults ==
    /\ mounted
    /\ ~submitDisabled
    /\ quota.submits > 0
    /\ quota' = [ quota EXCEPT !.submits = @ - 1 ]
    /\ isInjecting' = TRUE
    /\ message' = [ text |-> "", type |-> "" ]
    /\ posts' = Append(posts, payloadsToSubmit(faultConfigs))
    /\ sent' = sent + 1
    /\ last' = [ op |-> "submit", id |-> 0, field |-> "", response |-> "" ]
    /\ UNCHANGED measureVars
    /\ UNCHANGED << containers, links, interfacesByContainer, storage, isLoadingTopology,
                    detailedResults, faultConfigs, localConfig, gets, mounted, nextId >>

\* Variant of handleSubmitAllFaults without the guard on an empty list.
handleSubmitAllFaults_noGuard ==
    /\ isInjecting' = TRUE
    /\ message' = [ text |-> "", type |-> "" ]
    /\ detailedResults' = << >>
    /\ posts' = Append(posts, payloadsToSubmit(faultConfigs))
    /\ sent' = sent + 1
    /\ last' = [ op |-> "submit", id |-> 0, field |-> "", response |-> "" ]
    /\ UNCHANGED measureVars
    /\ UNCHANGED << containers, links, interfacesByContainer, storage, isLoadingTopology,
                    faultConfigs, localConfig, gets, mounted, nextId >>

\* Variant of handleSubmitAllFaults that sends the batch without emptying
\* the list of results.
handleSubmitAllFaults_notClearing ==
    /\ IF Len(faultConfigs) = 0
       THEN /\ message' = [ text |-> "no faults configured", type |-> "warning" ]
            /\ UNCHANGED << isInjecting, detailedResults, posts, sent >>
       ELSE /\ isInjecting' = TRUE
            /\ message' = [ text |-> "", type |-> "" ]
            /\ posts' = Append(posts, payloadsToSubmit(faultConfigs))
            /\ sent' = sent + 1
            /\ UNCHANGED detailedResults
    /\ last' = [ op |-> "submit", id |-> 0, field |-> "", response |-> "" ]
    /\ UNCHANGED measureVars
    /\ UNCHANGED << containers, links, interfacesByContainer, storage, isLoadingTopology,
                    faultConfigs, localConfig, gets, mounted, nextId >>

\* handleSubmitAllFaults up to its await.
handleSubmitAllFaults ==
    /\ IF Len(faultConfigs) = 0
       THEN /\ message' = [ text |-> "no faults configured", type |-> "warning" ]
            /\ UNCHANGED << isInjecting, detailedResults, posts, sent >>
       ELSE /\ isInjecting' = TRUE
            /\ message' = [ text |-> "", type |-> "" ]
            /\ detailedResults' = << >>
            /\ posts' = Append(posts, payloadsToSubmit(faultConfigs))
            /\ sent' = sent + 1
    /\ last' = [ op |-> "submit", id |-> 0, field |-> "", response |-> "" ]
    /\ UNCHANGED measureVars
    /\ UNCHANGED << containers, links, interfacesByContainer, storage, isLoadingTopology,
                    faultConfigs, localConfig, gets, mounted, nextId >>

\* The submit button.
HandleSubmitAllFaults ==
    /\ mounted
    /\ ~submitDisabled
    /\ quota.submits > 0
    /\ quota' = [ quota EXCEPT !.submits = @ - 1 ]
    /\ handleSubmitAllFaults

\* handleSubmitAllFaults called whatever the state of the button.
InvokeSubmitAllFaults ==
    /\ mounted
    /\ quota.submits > 0
    /\ quota' = [ quota EXCEPT !.submits = @ - 1 ]
    /\ handleSubmitAllFaults

\* Variant of detailsOf that loses the first result.
detailsOf_tail(response) ==
    IF Len(response.details) > 0 THEN Tail(response.details) ELSE << >>

\* Variant of detailsOf that shows the results in reverse order.
detailsOf_reversed(response) ==
    [ i \in 1..Len(response.details) |->
        response.details[Len(response.details) + 1 - i] ]

\* response.data.details || []
detailsOf(response) ==
    IF "details" \in DOMAIN response THEN response.details ELSE << >>

\* Variant of SubmitOk that resets the list to one default entry once the
\* batch has been answered.
SubmitOk_resetting(response) ==
    /\ mounted
    /\ Len(posts) > 0
    /\ response \in Responses(Head(posts))
    /\ posts' = Tail(posts)
    /\ message' = [ text |-> response.message,
                    type |-> IF response.status # "" THEN response.status ELSE "info" ]
    /\ detailedResults' = detailsOf(response)
    /\ isInjecting' = FALSE
    /\ faultConfigs' = << WithId(DEFAULT_FAULT_CONFIG, faultConfigs[1].id) >>
    /\ localConfig' = blockSync(localConfig, faultConfigs', ids(faultConfigs'))
    /\ last' = [ op |-> "submitOk", id |-> 0, field |-> "", response |-> response ]
    /\ UNCHANGED measureVars
    /\ UNCHANGED << sent, containers, links, interfacesByContainer, storage, isLoadingTopology,
                    gets, mounted, nextId, quota >>

\* Variant of SubmitOk that works the type of the message out from the
\* per-item results: error as soon as one item failed.
SubmitOk_derivingStatus(response) ==
    /\ mounted
    /\ Len(posts) > 0
    /\ response \in Responses(Head(posts))
    /\ posts' = Tail(posts)
    /\ message' = [ text |-> response.message,
                    type |-> IF \E i \in 1..Len(response.details) :
                                    response.details[i].status = "error"
                             THEN "error" ELSE "success" ]
    /\ detailedResults' = detailsOf(response)
    /\ isInjecting' = FALSE
    /\ last' = [ op |-> "submitOk", id |-> 0, field |-> "", response |-> response ]
    /\ UNCHANGED measureVars
    /\ UNCHANGED << sent, containers, links, interfacesByContainer, storage, isLoadingTopology,
                    faultConfigs, localConfig, gets, mounted, nextId, quota >>

\* handleSubmitAllFaults after its await, the request answered with `response`.
SubmitOk(response) ==
    /\ mounted
    /\ Len(posts) > 0
    /\ response \in Responses(Head(posts))
    /\ posts' = Tail(posts)
    /\ message' = [ text |-> response.message,
                    type |-> IF response.status # "" THEN response.status ELSE "info" ]
    /\ detailedResults' = detailsOf(response)
    /\ isInjecting' = FALSE
    /\ last' = [ op |-> "submitOk", id |-> 0, field |-> "", response |-> response ]
    /\ UNCHANGED measureVars
    /\ UNCHANGED << sent, containers, links, interfacesByContainer, storage, isLoadingTopology,
                    faultConfigs, localConfig, gets, mounted, nextId, quota >>

\* Variant of SubmitFail that leaves isInjecting as it is, as a handler
\* without the finally block would.
SubmitFail_notClearing ==
    /\ mounted
    /\ Len(posts) > 0
    /\ posts' = Tail(posts)
    /\ message' = [ text |-> "Failed to inject faults. ", type |-> "error" ]
    /\ last' = [ op |-> "submitFail", id |-> 0, field |-> "", response |-> "" ]
    /\ UNCHANGED measureVars
    /\ UNCHANGED << sent, containers, links, interfacesByContainer, storage, isLoadingTopology,
                    isInjecting, detailedResults, faultConfigs, localConfig, gets, mounted,
                    nextId, quota >>

\* handleSubmitAllFaults after its await, the request failed.
SubmitFail ==
    /\ mounted
    /\ Len(posts) > 0
    /\ posts' = Tail(posts)
    /\ message' = [ text |-> "Failed to inject faults. ", type |-> "error" ]
    /\ isInjecting' = FALSE
    /\ last' = [ op |-> "submitFail", id |-> 0, field |-> "", response |-> "" ]
    /\ UNCHANGED measureVars
    /\ UNCHANGED << sent, containers, links, interfacesByContainer, storage, isLoadingTopology,
                    detailedResults, faultConfigs, localConfig, gets, mounted, nextId, quota >>

\* getInitialState(keySuffix, defaultValue) against the stored snapshot.
getInitialState(keySuffix, defaultValue) ==
    IF storage.stored THEN storage[keySuffix] ELSE defaultValue

\* Variant of Reload that brings the entries back as they were, as a page
\* that kept them in sessionStorage would.
Reload_keepingEntries ==
    /\ quota.ids > 0
    /\ quota' = [ quota EXCEPT !.ids = @ - 1 ]
    /\ containers' = getInitialState("containers", << >>)
    /\ links' = getInitialState("links", << >>)
    /\ interfacesByContainer' = getInitialState("interfacesByContainer", EmptyMap)
    /\ isLoadingTopology' = FALSE
    /\ isInjecting' = FALSE
    /\ message' = [ text |-> "", type |-> "" ]
    /\ detailedResults' = << >>
    /\ gets' = 0
    /\ posts' = << >>
    /\ mounted' = FALSE
    /\ last' = [ op |-> "reload", id |-> 0, field |-> "", response |-> "" ]
    /\ UNCHANGED measureVars
    /\ UNCHANGED << faultConfigs, localConfig, nextId, storage, sent >>

\* The page is loaded again in the same browser session: every useState
\* initialiser runs anew, requests in flight are abandoned.
Reload ==
    /\ quota.ids > 0
    /\ quota' = [ quota EXCEPT !.ids = @ - 1 ]
    /\ containers' = getInitialState("containers", << >>)
    /\ links' = getInitialState("links", << >>)
    /\ interfacesByContainer' = getInitialState("interfacesByContainer", EmptyMap)
    /\ isLoadingTopology' = FALSE
    /\ isInjecting' = FALSE
    /\ message' = [ text |-> "", type |-> "" ]
    /\ detailedResults' = << >>
    /\ faultConfigs' = << WithId(DEFAULT_FAULT_CONFIG, nextId) >>
    /\ localConfig' = [ id \in {nextId} |-> WithId(DEFAULT_FAULT_CONFIG, nextId) ]
    /\ nextId' = nextId + 1
    /\ gets' = 0
    /\ posts' = << >>
    /\ mounted' = FALSE
    /\ last' = [ op |-> "reload", id |-> 0, field |-> "", response |-> "" ]
    /\ UNCHANGED measureVars
    /\ UNCHANGED << storage, sent >>

Next ==
    \/ Mount
    \/ FetchTopology
    \/ \E data \in Topologies : FetchTopologyOk(data)
    \/ FetchTopologyFail
    \/ HandleAddFaultConfig
    \/ \E i \in 1..Len(faultConfigs) : HandleRemoveFaultConfig(faultConfigs[i].id)
    \/ \E i \in 1..Len(faultConfigs), field \in Fields :
          \E value \in Options(faultConfigs[i], field) : HandleLocalChange(i, field, value)
    \/ HandleSubmitAllFaults
    \/ \E response \in (IF Len(posts) > 0 THEN Responses(Head(posts)) ELSE {}) :
          SubmitOk(response)
    \/ SubmitFail
    \/ Reload

Spec == Init /\ [][Next]_vars

\* The POST in flight is answered or fails: the continuation of
\* handleSubmitAllFaults runs.
SubmissionCompletes ==
    \/ \E response \in (IF Len(posts) > 0 THEN Responses(Head(posts)) ELSE {}) :
          SubmitOk(response)
    \/ SubmitFail

\* The GET in flight is answered or fails: the continuation of fetchTopology
\* runs.
RefreshCompletes ==
    \/ \E data \in Topologies : FetchTopologyOk(data)
    \/ FetchTopologyFail

\* The page with every request eventually answered or failed.
LiveSpec ==
    /\ Spec
    /\ WF_vars(SubmissionCompletes)
    /\ WF_vars(RefreshCompletes)

\* handleFaultConfigChange called with an id no entry has.
InvokeFaultConfigChange(id, field, value) ==
    /\ mounted
    /\ quota.edits > 0
    /\ id \notin ids(faultConfigs)
    /\ faultConfigs' = handleFaultConfigChange(faultConfigs, id, field, value)
    /\ localConfig' = blockSync(localConfig, faultConfigs', {})
    /\ quota' = [ quota EXCEPT !.edits = @ - 1 ]
    /\ last' = [ op |-> "change", id |-> id, field |-> field, response |-> "" ]
    /\ UNCHANGED measureVars
    /\ UNCHANGED << containers, links, interfacesByContainer, storage, isLoadingTopology,
                    isInjecting, message, detailedResults, gets, posts, sent, mounted, nextId >>

\* handleRemoveFaultConfig called with an id no entry has.
InvokeRemoveFaultConfig(id) ==
    /\ mounted
    /\ quota.edits > 0
    /\ id \notin ids(faultConfigs)
    /\ faultConfigs' = handleRemoveFaultConfig(faultConfigs, id, nextId)
    /\ localConfig' = blockSync(localConfig, faultConfigs', {})
    /\ quota' = [ quota EXCEPT !.edits = @ - 1 ]
    /\ last' = [ op |-> "remove", id |-> id, field |-> "", response |-> "" ]
    /\ UNCHANGED measureVars
    /\ UNCHANGED << containers, links, interfacesByContainer, storage, isLoadingTopology,
                    isInjecting, message, detailedResults, gets, posts, sent, mounted, nextId >>

\* The page, and its two list handlers called with ids of entries that were
\* removed or never made.
NextCalls ==
    \/ Next
    \/ \E id \in 1..nextId, field \in { "fault_type", "target_node", "latency_ms" } :
          \E value \in Options(WithId(DEFAULT_FAULT_CONFIG, id), field) :
              InvokeFaultConfigChange(id, field, value)
    \/ \E id \in 1..nextId : InvokeRemoveFaultConfig(id)

SpecCalls == Init /\ [][NextCalls]_vars

\* Responses of GET /insert/topology that list interfaces of a node the
\* node list does not have: the page takes the body as it comes.
MalformedTopologies ==
    { [ containers |-> << >>,
        links |-> << >>,
        interfaces_by_container |-> [ n \in {"r1"} |-> << "eth1" >> ] ] }

NextAnyTopology ==
    \/ Next
    \/ \E data \in MalformedTopologies : FetchTopologyOk(data)

\* The page with a server that may also answer with such a topology.
SpecAnyTopology == Init /\ [][NextAnyTopology]_vars

\* The page with a list that holds no entry, as the page without the re-seed
\* leaves it when its last entry is removed, with or without the results of
\* an earlier batch on display; the handlers are called directly.
InitEmptyList ==
    /\ containers = << >>
    /\ links = << >>
    /\ interfacesByContainer = EmptyMap
    /\ storage = NoSnapshot
    /\ isLoadingTopology = FALSE
    /\ isInjecting = FALSE
    /\ message = [ text |-> "", type |-> "" ]
    /\ detailedResults \in
          { << >>,
            << [ fault_type |-> "link_down", status |-> "success",
                 message |-> "result 1", target_display |-> "r1" ] >> }
    /\ faultConfigs = << >>
    /\ localConfig = [ id \in {} |-> DEFAULT_FAULT_CONFIG ]
    /\ gets = 0
    /\ posts = << >>
    /\ sent = 0
    /\ mounted = FALSE
    /\ nextId = 2
    /\ quota \in Quotas
    /\ last = [ op |-> "init", id |-> 0, field |-> "", response |-> "" ]
    /\ MeasurePageInit

NextDirect ==
    \/ Next
    \/ InvokeSubmitAllFaults

SpecEmptyList == InitEmptyList /\ [][NextDirect]_vars

-----------------------------------------------------------------------------
(* Vocabulary of the properties *)

linkStrings(ls) == { LinkStr(ls[i]) : i \in 1..Len(ls) }

\* The fields whose controls FaultConfigBlock renders for a kind: the
\* relevance table.
relevantFields(kind) ==
    {"fault_type"}
    \cup (IF kind # "routing_loop_timed" THEN {"target_node"} ELSE {})
    \cup (IF showInterfaceSelector([fault_type |-> kind]) THEN {"target_interface"} ELSE {})
    \cup (IF showLinkTargetFields([fault_type |-> kind]) THEN {"target_link"} ELSE {})
    \cup (IF kind = "add_latency"
          THEN {"latency_ms", "jitter_ms", "correlation_percent"} ELSE {})
    \cup (IF kind = "limit_bandwidth"
          THEN {"bandwidth_rate_kbit", "bandwidth_burst_bytes", "bandwidth_latency_ms"}
          ELSE {})
    \cup (IF kind = "routing_loop_timed"
          THEN {"loop_node1", "loop_node2", "loop_dummy_dest_ip", "loop_duration_sec",
                "loop_ping_target_ip", "loop_ping_count"}
          ELSE {})

-----------------------------------------------------------------------------
(* Topology resolution: C1, C2, C3, C8 *)

\* C1: after a successful topology refresh every entry's target_node is a
\* node of the new topology or empty.
C1_NodeValidAfterRefresh ==
    last.op = "fetchTopologyOk" =>
        \A i \in 1..Len(faultConfigs) :
            faultConfigs[i].target_node \in Range(containers) \cup {""}

\* C2: after a successful topology refresh every entry's target_link is
\* empty or the 'a|b' string of a link of the new topology.
C2_LinkValidAfterRefresh ==
    last.op = "fetchTopologyOk" =>
        \A i \in 1..Len(faultConfigs) :
            faultConfigs[i].target_link \in linkStrings(links) \cup {""}

allInterfacesValid ==
    \A i \in 1..Len(faultConfigs) :
        faultConfigs[i].target_interface
            \in Range(InterfacesOf(interfacesByContainer, faultConfigs[i].target_node))
                \cup {""}

\* C3: a successful refresh, an add, a re-seeding remove and an update of
\* target_node each leave every entry's target_interface empty or among the
\* interfaces of its target_node in the current topology.
C3_InterfaceValidAfterResolution ==
    [][ (\/ last'.op \in {"fetchTopologyOk", "add"}
         \/ last'.op = "remove" /\ nextId' # nextId
         \/ last'.op = "change" /\ last'.field = "target_node")
        => allInterfacesValid' ]_vars

\* C8: a successful refresh keeps, in every entry, each of target_node,
\* target_interface and target_link whose value is valid under the new
\* topology, and neither adds nor removes entries.
C8_RefreshKeepsValidFields ==
    [][ last'.op = "fetchTopologyOk" =>
          /\ Len(faultConfigs') = Len(faultConfigs)
          /\ \A i \in 1..Len(faultConfigs) :
                /\ faultConfigs[i].target_node \in Range(containers')
                      => faultConfigs'[i].target_node = faultConfigs[i].target_node
                /\ faultConfigs[i].target_link \in linkStrings(links')
                      => faultConfigs'[i].target_link = faultConfigs[i].target_link
                /\ faultConfigs[i].target_interface
                        \in Range(InterfacesOf(interfacesByContainer',
                                               faultConfigs[i].target_node))
                      => faultConfigs'[i].target_interface = faultConfigs[i].target_interface
      ]_vars

\* A refresh has just completed and an entry still holds an interface that
\* is not the default of its node: one the user chose.
C8_Witness ==
    /\ last.op = "fetchTopologyOk"
    /\ \E i \in 1..Len(faultConfigs) :
          /\ faultConfigs[i].target_node \in Range(containers)
          /\ faultConfigs[i].target_interface
                \notin {"", firstInterface(interfacesByContainer, faultConfigs[i].target_node)}

-----------------------------------------------------------------------------
(* The set of entries: C4, C5 *)

\* C4: the set starts with exactly one entry and never becomes empty;
\* removing the only entry leaves exactly one entry, with an identifier not
\* in use before, kind link_down and targets seeded from the topology.
C4_NeverEmpty ==
    /\ Len(faultConfigs) = 1
    /\ [](Len(faultConfigs) >= 1)
    /\ [][ (last'.op = "remove" /\ ids(faultConfigs) = {last'.id}) =>
             /\ Len(faultConfigs') = 1
             /\ faultConfigs'[1].id \notin ids(faultConfigs)
             /\ faultConfigs'[1].fault_type = "link_down"
             /\ faultConfigs'[1].target_node
                   = (IF containers = << >> THEN "" ELSE containers[1])
             /\ faultConfigs'[1].target_link
                   = (IF links = << >> THEN "" ELSE LinkStr(links[1]))
             /\ faultConfigs'[1].target_interface
                   \in Range(InterfacesOf(interfacesByContainer,
                                          faultConfigs'[1].target_node)) \cup {""}
       ]_vars

\* The only entry has just been removed and replaced by a fresh one.
C4_Witness ==
    /\ last.op = "remove"
    /\ Len(faultConfigs) = 1
    /\ faultConfigs[1].id = nextId - 1
    /\ last.id # faultConfigs[1].id
    /\ faultConfigs[1].target_node # ""

\* C5 as stated: after the kind of an entry is changed, every field that is
\* irrelevant to the new kind holds its default value.
C5_KindChangeClearsIrrelevant ==
    (last.op = "change" /\ last.field = "fault_type") =>
        LET fc == entryOf(faultConfigs, last.id)
        IN  \A f \in Fields \ relevantFields(fc.fault_type) :
                fc[f] = DEFAULT_FAULT_CONFIG[f]

\* C5, amended: a change of kind changes fault_type and nothing else, in
\* that entry and in the others, and repeating it changes nothing.
C5_KindChangeKeepsOtherFields ==
    [][ (last'.op = "change" /\ last'.field = "fault_type") =>
          /\ Len(faultConfigs') = Len(faultConfigs)
          /\ \A i \in 1..Len(faultConfigs) :
                \A f \in (Fields \cup {"id"}) \ {"fault_type"} :
                    faultConfigs'[i][f] = faultConfigs[i][f]
          /\ \A i \in 1..Len(faultConfigs) :
                faultConfigs[i].id # last'.id => faultConfigs'[i] = faultConfigs[i]
          /\ handleLocalChange(faultConfigs', last'.id, "fault_type",
                               entryOf(faultConfigs', last'.id).fault_type) = faultConfigs'
      ]_vars

\* The kind of an entry has just been changed and a field the new kind does
\* not use still holds a value that is not its default.
C5_Witness ==
    /\ last.op = "change"
    /\ last.field = "fault_type"
    /\ LET fc == entryOf(faultConfigs, last.id)
       IN  \E f \in Fields \ relevantFields(fc.fault_type) : fc[f] # DEFAULT_FAULT_CONFIG[f]

-----------------------------------------------------------------------------
(* Submission: C6, C7, C9, C10 *)

payloadsInFlight == UNION { Range(posts[k]) : k \in 1..Len(posts) }

nodeKinds == { "node_stop", "node_start", "node_pause", "node_unpause" }

\* C6 as stated: every payload of every submitted batch holds only
\* fault_type and the fields relevant to its kind.
C6_PayloadOnlyRelevant ==
    \A p \in payloadsInFlight : DOMAIN p \subseteq relevantFields(p.fault_type)

\* C6, amended: the payload of an entry holds fault_type, target_node and
\* target_interface exactly when the entry's value is not empty, whatever
\* the kind, and beyond these only fields relevant to the entry's kind.
C6_PayloadRelevantBesidesTargets ==
    [][ last'.op = "submit" =>
          LET body == posts'[Len(posts')]
          IN  /\ Len(body) = Len(faultConfigs)
              /\ \A i \in 1..Len(body) :
                    /\ "fault_type" \in DOMAIN body[i]
                    /\ body[i].fault_type = faultConfigs[i].fault_type
                    /\ "target_node" \in DOMAIN body[i] <=> faultConfigs[i].target_node # ""
                    /\ "target_interface" \in DOMAIN body[i]
                          <=> faultConfigs[i].target_interface # ""
                    /\ DOMAIN body[i] \ {"target_node", "target_interface"}
                          \subseteq relevantFields(faultConfigs[i].fault_type)
      ]_vars

\* A batch in flight holds a payload of a node kind that carries
\* target_interface.
C6_Witness ==
    \E p \in payloadsInFlight :
        p.fault_type \in nodeKinds /\ "target_interface" \in DOMAIN p

\* C7: at most one batch submission is in flight; while one is, isInjecting
\* is true, the add, remove, edit and submit controls are disabled, and none
\* of their handlers runs.
C7_OneSubmissionInFlight ==
    /\ [](/\ Len(posts) <= 1
          /\ Len(posts) = 1 =>
                isInjecting /\ addDisabled /\ isFormDisabled /\ submitDisabled)
    /\ [][ Len(posts) > 0 => last'.op \notin {"add", "remove", "change", "submit"} ]_vars

\* A batch is in flight while the behaviour may still start another one.
C7_Witness ==
    Len(posts) = 1 /\ isInjecting /\ quota.submits > 0 /\ quota.edits > 0

\* C9 as stated: whatever the number of results in the response, as many
\* results are displayed as entries were submitted.
C9_ShortResponsePadded ==
    [][ last'.op = "submitOk" => Len(detailedResults') = Len(Head(posts)) ]_vars

\* C9, amended: the results displayed after a response are exactly the
\* results the response carries, M of them when it carries M.
C9_ResultsAsReturned ==
    last.op = "submitOk" => detailedResults = last.response.details

\* Two entries were submitted and the response carried one result.
C9_Witness ==
    /\ last.op = "submitOk"
    /\ Len(last.response.details) = 1
    /\ Len(faultConfigs) = 2
    /\ Len(detailedResults) = 1

\* C10: once the batch request has failed, the overall message has type
\* error, no per-item result is displayed, isInjecting is false and nothing
\* is in flight.
C10_TransportFailure ==
    last.op = "submitFail" =>
        /\ message.type = "error"
        /\ detailedResults = << >>
        /\ ~isInjecting
        /\ posts = << >>

\* The second batch of a behaviour has failed.
C10_Witness ==
    last.op = "submitFail" /\ sent = 2 /\ message.type = "error"

-----------------------------------------------------------------------------
(* Submission: C11, C12, C16 *)

\* C11: a submit sends exactly one request, whose body holds one payload
\* per entry of the list, in the list's order; no other step sends a
\* request or puts one in flight.
C11_OneRequestPerSubmit ==
    [][ /\ last'.op = "submit" =>
              /\ sent' = sent + 1
              /\ Len(posts') = Len(posts) + 1
              /\ SubSeq(posts', 1, Len(posts)) = posts
              /\ LET body == posts'[Len(posts')]
                 IN  /\ Len(body) = Len(faultConfigs)
                     /\ \A i \in 1..Len(body) :
                           /\ body[i].fault_type = faultConfigs[i].fault_type
                           /\ faultConfigs[i].target_node # ""
                                 => body[i].target_node = faultConfigs[i].target_node
        /\ last'.op # "submit" => sent' = sent /\ Len(posts') <= Len(posts)
      ]_vars

\* A batch of two entries of different kinds is in flight.
C11_Witness ==
    /\ Len(posts) = 1
    /\ Len(posts[1]) = 2
    /\ posts[1][1].fault_type # posts[1][2].fault_type
    /\ last.op = "submit"

\* C12: when the response carries as many results as entries were
\* submitted, that many results are displayed, the i-th displayed being the
\* i-th of the response, which is the result of the i-th submitted entry.
C12_FullResponseInOrder ==
    [][ (last'.op = "submitOk" /\ Len(last'.response.details) = Len(Head(posts))) =>
          /\ Len(detailedResults') = Len(Head(posts))
          /\ \A i \in 1..Len(Head(posts)) :
                /\ detailedResults'[i] = last'.response.details[i]
                /\ detailedResults'[i].fault_type = Head(posts)[i].fault_type
      ]_vars

\* Two entries were submitted and two different results are displayed.
C12_Witness ==
    /\ last.op = "submitOk"
    /\ Len(faultConfigs) = 2
    /\ Len(last.response.details) = 2
    /\ Len(detailedResults) = 2
    /\ detailedResults[1] # detailedResults[2]

\* C16: the start of a submission, its successful completion and its failed
\* completion leave the list of entries as it was.
C16_SubmitKeepsEntries ==
    [][ last'.op \in {"submit", "submitOk", "submitFail"} => faultConfigs' = faultConfigs ]_vars

\* A batch has been answered, or has failed, and the list still holds an
\* entry the user edited to another kind.
C16_Witness ==
    /\ last.op \in {"submitOk", "submitFail"}
    /\ sent > 0
    /\ \E i \in 1..Len(faultConfigs) : faultConfigs[i].fault_type # "link_down"

-----------------------------------------------------------------------------
(* The topology snapshot: C13, C14, C15 *)

\* The snapshot the useState initialisers of a reloaded page would read.
reconstructed ==
    [ containers |-> getInitialState("containers", << >>),
      links |-> getInitialState("links", << >>),
      interfaces_by_container |-> getInitialState("interfacesByContainer", EmptyMap) ]

inMemory ==
    [ containers |-> containers, links |-> links,
      interfaces_by_container |-> interfacesByContainer ]

\* C13: a successful refresh leaves the in-memory snapshot equal to one
\* fetched response, whole, and the persisted snapshot equal to it; a failed
\* refresh leaves the in-memory snapshot empty and nothing persisted; and in
\* every state a reload would reconstruct the in-memory snapshot.
C13_SnapshotReplacedAndPersisted ==
    /\ [](reconstructed = inMemory)
    /\ [][ last'.op = "fetchTopologyOk" =>
             /\ inMemory' \in Topologies
             /\ storage'.stored
             /\ storage'.containers = containers'
             /\ storage'.links = links'
             /\ storage'.interfacesByContainer = interfacesByContainer' ]_vars
    /\ [][ last'.op = "fetchTopologyFail" =>
             /\ containers' = << >>
             /\ links' = << >>
             /\ interfacesByContainer' = EmptyMap
             /\ ~storage'.stored ]_vars

\* The page was loaded again and its initialisers read a stored snapshot of
\* two nodes.
C13_Witness ==
    /\ last.op = "reload"
    /\ storage.stored
    /\ Len(containers) = 2
    /\ inMemory \in Topologies

\* No refresh has succeeded since the page was loaded: the last handler is
\* the construction of the page, a reload, or the mount effect that follows.
noLiveRefreshYet == last.op \in {"init", "reload", "mount"}

\* C14 as stated: the 'not yet fetched' notice is shown while no refresh
\* has succeeded since the page was loaded, and is not shown once one has,
\* whether or not the snapshot is empty.
C14_NoticeTracksLiveRefresh ==
    /\ noLiveRefreshYet => noTopologyDataLoaded
    /\ last.op = "fetchTopologyOk" => ~noTopologyDataLoaded

\* C14, amended: the notice follows the emptiness of the snapshot, not the
\* history of refreshes. It is not shown after a reload that read a stored
\* snapshot with nodes, it is shown after a refresh that succeeded with an
\* empty topology as it is after one that failed, and it is never shown
\* while a refresh is loading.
C14_NoticeTracksEmptiness ==
    /\ (noLiveRefreshYet /\ storage.stored /\ Len(storage.containers) > 0)
          => ~noTopologyDataLoaded
    /\ (last.op = "fetchTopologyOk" /\ storage.stored /\ Len(storage.containers) = 0
            /\ DOMAIN storage.interfacesByContainer = {})
          => noTopologyDataLoaded
    /\ last.op = "fetchTopologyFail" => noTopologyDataLoaded
    /\ isLoadingTopology => ~noTopologyDataLoaded

\* A refresh has just succeeded with an empty topology and the notice is
\* shown.
C14_Witness ==
    /\ last.op = "fetchTopologyOk"
    /\ storage.stored
    /\ containers = << >>
    /\ noTopologyDataLoaded

\* C15: a failed refresh empties the snapshot and leaves every entry with
\* all the field values it had.
C15_FailedRefreshKeepsEntries ==
    [][ last'.op = "fetchTopologyFail" =>
          /\ faultConfigs' = faultConfigs
          /\ inMemory' = [ containers |-> << >>, links |-> << >>,
                           interfaces_by_container |-> EmptyMap ] ]_vars

\* A refresh has failed and an entry still names a node, an interface and a
\* link of the snapshot that was cleared.
C15_Witness ==
    /\ last.op = "fetchTopologyFail"
    /\ containers = << >>
    /\ \E i \in 1..Len(faultConfigs) :
          /\ faultConfigs[i].target_node # ""
          /\ faultConfigs[i].target_interface # ""
          /\ faultConfigs[i].target_link # ""

-----------------------------------------------------------------------------
(* Seeding and editing entries: C17, C18, C19, C20 *)

\* C17: add appends one entry at the end and leaves the others as they
\* were; the new entry has a new id, kind link_down, the first node in
\* discovery order, that node's first interface and the first link's
\* 'a|b' string, each empty when the topology has none.
C17_AddAppendsSeeded ==
    [][ last'.op = "add" =>
          /\ Len(faultConfigs') = Len(faultConfigs) + 1
          /\ SubSeq(faultConfigs', 1, Len(faultConfigs)) = faultConfigs
          /\ LET new == faultConfigs'[Len(faultConfigs')]
                 node == IF containers = << >> THEN "" ELSE containers[1]
             IN  /\ new.id \notin ids(faultConfigs)
                 /\ new.fault_type = "link_down"
                 /\ new.target_node = node
                 /\ new.target_interface
                       = (IF node \in DOMAIN interfacesByContainer
                             /\ interfacesByContainer[node] # << >>
                          THEN interfacesByContainer[node][1] ELSE "")
                 /\ new.target_link
                       = (IF links = << >> THEN ""
                          ELSE links[1][1] \o "|" \o links[1][2])
      ]_vars

\* An entry has just been added under nodes [r2, r1]: it targets r2, the
\* first node discovered, not the first in alphabetical order.
C17_Witness ==
    /\ last.op = "add"
    /\ containers = << "r2", "r1" >>
    /\ Len(faultConfigs) = 2
    /\ faultConfigs[2].id = last.id
    /\ faultConfigs[2].target_node = "r2"
    /\ faultConfigs[2].target_interface = "eth1"
    /\ faultConfigs[2].target_link = "r1|r2"

\* The first interface the current snapshot lists for a node, or empty.
firstListed(node) ==
    IF node \in DOMAIN interfacesByContainer /\ interfacesByContainer[node] # << >>
    THEN interfacesByContainer[node][1] ELSE ""

nodeNames == UNION { Range(t.containers) : t \in Topologies }

\* The first endpoint of an 'a|b' string, or empty for the empty string.
firstEndpoint(linkStr) ==
    IF \E a, b \in nodeNames : a \o "|" \o b = linkStr
    THEN CHOOSE a \in nodeNames : \E b \in nodeNames : a \o "|" \o b = linkStr
    ELSE ""

\* The entries of `after` whose target_node was defaulted by the step from
\* `before`: those new in the list, and those that had it empty.
defaultedNode(before, after) ==
    { j \in 1..Len(after) :
        \/ after[j].id \notin ids(before)
        \/ entryOf(before, after[j].id).target_node = "" }

resolutionStep ==
    \/ last'.op \in {"fetchTopologyOk", "add"}
    \/ last'.op = "remove" /\ nextId' # nextId

\* C19 as stated: resolution gives a link_down or link_up entry whose
\* target_node was unset the first endpoint of the entry's target link.
C19_NodeDefaultsToLinkEndpoint ==
    [][ resolutionStep =>
          \A j \in defaultedNode(faultConfigs, faultConfigs') :
              (showLinkTargetFields(faultConfigs'[j]) /\ faultConfigs'[j].target_link # "")
                  => faultConfigs'[j].target_node = firstEndpoint(faultConfigs'[j].target_link)
      ]_vars

\* C19, amended: resolution gives a link_down or link_up entry whose
\* target_node was unset the first node of the topology, or empty when it
\* has none, whatever the entry's target link.
C19_NodeDefaultsToFirstNode ==
    [][ resolutionStep =>
          \A j \in defaultedNode(faultConfigs, faultConfigs') :
              showLinkTargetFields(faultConfigs'[j])
                  => faultConfigs'[j].target_node
                        = (IF containers' = << >> THEN "" ELSE containers'[1])
      ]_vars

\* The first refresh of an unedited page has resolved its entry to node r2
\* and link 'r1|r2', whose first endpoint is r1.
C19_Witness ==
    /\ last.op = "fetchTopologyOk"
    /\ nextId = 2
    /\ quota.edits = MaxEdits
    /\ quota.fetches = 0
    /\ Len(faultConfigs) = 1
    /\ faultConfigs[1].fault_type = "link_down"
    /\ faultConfigs[1].target_node = "r2"
    /\ faultConfigs[1].target_link = "r1|r2"
    /\ firstEndpoint(faultConfigs[1].target_link) = "r1"

\* C20: after a successful refresh, an add or a re-seeding remove, an entry
\* that is new or had loop_node1 (loop_node2) empty has the first (second)
\* node of the topology there, the first when there is one node only and
\* empty when there is none; a loop node that was not empty is unchanged.
C20_LoopNodesDefaulted ==
    [][ resolutionStep =>
          LET n == Len(containers')
              first == IF n > 0 THEN containers'[1] ELSE ""
              second == IF n > 1 THEN containers'[2] ELSE first
          IN  \A j \in 1..Len(faultConfigs') :
                LET new == faultConfigs'[j]
                    isNew == new.id \notin ids(faultConfigs)
                IN  /\ (isNew \/ entryOf(faultConfigs, new.id).loop_node1 = "")
                          => new.loop_node1 = first
                    /\ (isNew \/ entryOf(faultConfigs, new.id).loop_node2 = "")
                          => new.loop_node2 = second
                    /\ (~isNew /\ entryOf(faultConfigs, new.id).loop_node1 # "")
                          => new.loop_node1 = entryOf(faultConfigs, new.id).loop_node1
                    /\ (~isNew /\ entryOf(faultConfigs, new.id).loop_node2 # "")
                          => new.loop_node2 = entryOf(faultConfigs, new.id).loop_node2
      ]_vars

\* A refresh has completed over nodes [r2, r1] and an entry that targets r1
\* has the loop nodes r2 and r1.
C20_Witness ==
    /\ last.op = "fetchTopologyOk"
    /\ containers = << "r2", "r1" >>
    /\ \E i \in 1..Len(faultConfigs) :
          /\ faultConfigs[i].target_node = "r1"
          /\ faultConfigs[i].loop_node1 = "r2"
          /\ faultConfigs[i].loop_node2 = "r1"

-----------------------------------------------------------------------------
(* The blocks' drafts and the identity of entries: C24, C25 *)

\* C24: between handlers every rendered block's localConfig equals, in
\* every field, the entry of faultConfigs with its id, and there is one
\* block per entry.
C24_DraftEqualsCommitted ==
    /\ DOMAIN localConfig = ids(faultConfigs)
    /\ \A i \in 1..Len(faultConfigs) : localConfig[faultConfigs[i].id] = faultConfigs[i]

\* An edit of target_node has just been committed, and the block's draft
\* holds the node and the interface derived from it.
C24_Witness ==
    /\ last.op = "change"
    /\ last.field = "target_node"
    /\ last.id \in DOMAIN localConfig
    /\ localConfig[last.id].target_node \in Range(containers)
    /\ localConfig[last.id].target_interface
          = firstInterface(interfacesByContainer, localConfig[last.id].target_node)
    /\ localConfig[last.id].target_interface # ""

-----------------------------------------------------------------------------
(* Submission guards and outcomes: C21, C22 *)

\* C21: handleSubmitAllFaults called on a list without entries sends no
\* request, leaves isInjecting false and the displayed results as they
\* were, and shows a warning.
C21_EmptySubmitRejected ==
    [][ (last'.op = "submit" /\ Len(faultConfigs) = 0) =>
          /\ sent' = sent
          /\ posts' = posts
          /\ ~isInjecting'
          /\ detailedResults' = detailedResults
          /\ message'.type = "warning"
          /\ message'.text # ""
      ]_vars

\* The handler has run on an empty list while the results of an earlier
\* batch were on display.
C21_Witness ==
    /\ last.op = "submit"
    /\ Len(faultConfigs) = 0
    /\ message.type = "warning"
    /\ Len(detailedResults) = 1
    /\ sent = 0

\* The overall statuses the server gives a batch with these per-item
\* results: never error once one item has succeeded.
batchStatuses(details) ==
    IF \E i \in 1..Len(details) : details[i].status = "success"
    THEN OverallStatuses \ { "error" }
    ELSE OverallStatuses

\* Some item succeeded and some item did not.
mixedWithSuccess(details) ==
    /\ \E i \in 1..Len(details) : details[i].status = "success"
    /\ \E i \in 1..Len(details) : details[i].status # "success"

-----------------------------------------------------------------------------
(* The entries across sessions: C23 *)

\* The cached snapshot a session starts from, read from sessionStorage.
cachedContainers == IF storage.stored THEN storage.containers ELSE << >>

cachedLinks == IF storage.stored THEN storage.links ELSE << >>

cachedInterfaces == IF storage.stored THEN storage.interfacesByContainer ELSE EmptyMap

\* The first element of a list, the empty string for an empty list.
firstOf(seq) == IF Len(seq) > 0 THEN seq[1] ELSE ""

\* C23: a session starts with exactly one entry, the default one of kind
\* link_down, and once the startup resolution has run the entry is still
\* the only one, of kind link_down, and targets the first node, the first
\* interface of that node and the first link of the cached snapshot, all
\* empty when nothing is cached.
C23_SessionStartsFromDefault ==
    /\ last.op \in { "init", "reload" } =>
          /\ Len(faultConfigs) = 1
          /\ faultConfigs[1] = WithId(DEFAULT_FAULT_CONFIG, faultConfigs[1].id)
          /\ faultConfigs[1].fault_type = "link_down"
    /\ last.op = "mount" =>
          /\ Len(faultConfigs) = 1
          /\ faultConfigs[1].fault_type = "link_down"
          /\ faultConfigs[1].target_node = firstOf(cachedContainers)
          /\ faultConfigs[1].target_interface =
                firstOf(InterfacesOf(cachedInterfaces, firstOf(cachedContainers)))
          /\ faultConfigs[1].target_link =
                (IF Len(cachedLinks) > 0 THEN LinkStr(cachedLinks[1]) ELSE "")

\* The page was loaded again after a second entry had been added and a
\* snapshot cached, and the startup resolution has run.
C23_Witness ==
    /\ last.op = "mount"
    /\ storage.stored
    /\ nextId > 3
    /\ Len(faultConfigs) = 1
    /\ faultConfigs[1].target_node = "r2"
    /\ faultConfigs[1].target_link = "r1|r2"

-----------------------------------------------------------------------------
(* The identity of entries: C25 *)

\* The ids of the entries, in the order of the list.
idsInOrder(cfgs) == [ i \in 1..Len(cfgs) |-> cfgs[i].id ]

\* C25: no two entries share an id; every id in use was handed out earlier
\* and every id handed out is one never handed out before, so a removed id
\* does not come back, not even for the entry re-seeded after the last one
\* was removed; and edits, refreshes, submissions and the startup
\* resolution leave the id of every entry as it is.
C25_IdsUniqueAndStable ==
    /\ [](/\ \A i, j \in 1..Len(faultConfigs) :
               faultConfigs[i].id = faultConfigs[j].id => i = j
          /\ \A i \in 1..Len(faultConfigs) : faultConfigs[i].id < nextId)
    /\ [][ /\ nextId' >= nextId
           /\ \A id \in ids(faultConfigs') : id \in ids(faultConfigs) \/ id >= nextId
           /\ last'.op = "remove" => last'.id \notin ids(faultConfigs')
           /\ last'.op \notin { "add", "remove", "reload" } =>
                 idsInOrder(faultConfigs') = idsInOrder(faultConfigs)
         ]_vars

\* The second entry was added, the first removed, then the second: the
\* entry re-seeded in its place has a third id.
C25_Witness ==
    /\ last.op = "remove"
    /\ last.id = 2
    /\ idsInOrder(faultConfigs) = << 3 >>
    /\ nextId = 4

-----------------------------------------------------------------------------
(* Requests in flight: C26, C27, C28, C29 *)

\* C26: from the step that sends a batch to the step that handles its
\* completion, no step changes an entry.
C26_EntriesFrozenWhileInjecting ==
    [][ (isInjecting /\ isInjecting') => faultConfigs' = faultConfigs ]_vars

\* The topology in memory has no node and no interface.
topologyEmpty == Len(containers) = 0 /\ DOMAIN interfacesByContainer = {}

\* C27: no step sends a batch or adds an entry while the in-memory topology
\* is empty, a refresh in flight or not.
C27_NoAddOrSubmitOnEmptyTopology ==
    [][ (sent' # sent \/ last'.op = "add") => ~topologyEmpty ]_vars

\* C28: a refresh is started only when no refresh request and no batch is
\* in flight, so at most one refresh request is outstanding at any time and
\* the results of refreshes are applied in the order the refreshes started.
C28_OneRefreshInFlight ==
    /\ [](gets <= 1)
    /\ [][ last'.op = "fetchTopology" =>
             /\ gets = 0
             /\ ~isLoadingTopology
             /\ Len(posts) = 0
             /\ ~isInjecting
             /\ gets' = 1
         ]_vars

\* A refresh is in flight and the page could start another once it is
\* answered.
C28_Witness ==
    /\ last.op = "fetchTopology"
    /\ gets = 1
    /\ isLoadingTopology
    /\ quota.fetches > 0
    /\ storage.stored

\* C29: with every request eventually answered or failed, a submission in
\* flight is followed by a state with isInjecting false and a refresh in
\* flight by a state with isLoadingTopology false, and the success handler
\* and the failure handler of each request both clear its flag.
C29_FlagsEventuallyCleared ==
    /\ isInjecting ~> ~isInjecting
    /\ isLoadingTopology ~> ~isLoadingTopology
    /\ [][ /\ last'.op \in { "submitOk", "submitFail" } => ~isInjecting'
           /\ last'.op \in { "fetchTopologyOk", "fetchTopologyFail" } => ~isLoadingTopology'
         ]_vars

\* A submission has failed and cleared isInjecting while a refresh was
\* still in flight.
C29_Witness ==
    /\ last.op = "submitFail"
    /\ ~isInjecting
    /\ sent > 0
    /\ gets = 1
    /\ isLoadingTopology

-----------------------------------------------------------------------------
(* What a refresh may write: C30 *)

\* The fields of an entry a refresh resolves against the topology.
refreshedFields ==
    { "target_node", "target_interface", "target_link", "loop_node1", "loop_node2" }

\* C30: the completion of a refresh, answered or failed, keeps the number
\* and the order of the entries and, in every entry, the id and every field
\* other than target_node, target_interface, target_link, loop_node1 and
\* loop_node2.
C30_RefreshWritesTargetsOnly ==
    [][ last'.op \in { "fetchTopologyOk", "fetchTopologyFail" } =>
          /\ Len(faultConfigs') = Len(faultConfigs)
          /\ \A i \in 1..Len(faultConfigs) :
                \A f \in (Fields \cup { "id" }) \ refreshedFields :
                    faultConfigs'[i][f] = faultConfigs[i][f]
      ]_vars

\* A refresh has given its targets to an entry whose kind and latency had
\* been edited before.
C30_Witness ==
    /\ last.op = "fetchTopologyOk"
    /\ Len(faultConfigs) = 1
    /\ faultConfigs[1].fault_type = "add_latency"
    /\ faultConfigs[1].latency_ms # DEFAULT_FAULT_CONFIG.latency_ms
    /\ faultConfigs[1].target_node = "r2"
    /\ faultConfigs[1].target_interface = "eth1"

-----------------------------------------------------------------------------
(* What the list handlers write: C31 *)

\* The fields handleLocalChange writes when `field` is changed.
writtenWith(field) ==
    IF field = "target_node" THEN { "target_node", "target_interface" } ELSE { field }

\* C31: a change of a field writes, in the entry with the id, that field
\* (and target_interface with target_node) and nothing else, and no other
\* entry; a remove keeps every other entry, in order, and makes a new entry
\* only in place of the last one; with an id no entry has, both leave the
\* list as it is.
C31_HandlersWriteOneEntry ==
    [][ /\ last'.op = "change" =>
             /\ Len(faultConfigs') = Len(faultConfigs)
             /\ \A i \in 1..Len(faultConfigs) :
                   \A f \in (Fields \cup { "id" }) :
                       (faultConfigs[i].id # last'.id \/ f \notin writtenWith(last'.field))
                           => faultConfigs'[i][f] = faultConfigs[i][f]
        /\ last'.op = "remove" =>
             LET kept == SelectSeq(faultConfigs, LAMBDA fc : fc.id # last'.id)
             IN  IF Len(kept) > 0
                 THEN faultConfigs' = kept
                 ELSE /\ Len(faultConfigs') = 1
                      /\ faultConfigs'[1].id \notin ids(faultConfigs)
        /\ (last'.op \in { "change", "remove" } /\ last'.id \notin ids(faultConfigs))
             => faultConfigs' = faultConfigs
      ]_vars

\* handleFaultConfigChange has been called, on a list of two entries, with
\* an id that was never handed out.
C31_Witness ==
    /\ last.op = "change"
    /\ last.id >= nextId
    /\ last.field = "fault_type"
    /\ Len(faultConfigs) = 2

-----------------------------------------------------------------------------
(* Optional parameters on the wire: C32 *)

\* The optional numeric parameters of a kind.
optionalNumbers(kind) ==
    IF kind = "add_latency" THEN { "jitter_ms", "correlation_percent" }
    ELSE IF kind = "routing_loop_timed" THEN { "loop_ping_count" }
    ELSE {}

\* C32: the payload of an entry holds an optional numeric parameter of the
\* entry's kind exactly when the entry's value for it is not empty, and
\* then with that value, 0 included.
C32_OptionalNumbersSent ==
    [][ last'.op = "submit" =>
          LET body == posts'[Len(posts')]
          IN  \A i \in 1..Len(faultConfigs) :
                \A f \in optionalNumbers(faultConfigs[i].fault_type) :
                    /\ f \in DOMAIN body[i] <=> faultConfigs[i][f] # NONE
                    /\ f \in DOMAIN body[i] => body[i][f] = faultConfigs[i][f]
      ]_vars

-----------------------------------------------------------------------------
(* The results on display: C33 *)

\* C33: sending a batch empties the list of results, the list is empty for
\* as long as the batch is in flight, and the only step that puts results
\* on display is the handling of the response to the batch in flight, which
\* displays the results of that response.
C33_ResultsOfLastSubmission ==
    /\ []((isInjecting \/ Len(posts) > 0) => detailedResults = << >>)
    /\ [][ /\ sent' # sent => detailedResults' = << >>
           /\ (detailedResults' # detailedResults /\ detailedResults' # << >>) =>
                 /\ last'.op = "submitOk"
                 /\ Len(posts) = 1
                 /\ last'.response \in Responses(posts[1])
                 /\ detailedResults' = last'.response.details
           /\ last'.op = "submitFail" => detailedResults' = << >>
         ]_vars

\* The second batch of a session has been answered and its results are on
\* display.
C33_Witness ==
    /\ last.op = "submitOk"
    /\ sent = 2
    /\ Len(detailedResults) > 0
    /\ detailedResults = last.response.details

-----------------------------------------------------------------------------
(* The two resolutions of a refresh: C34 *)

\* The map of setAndStoreTopologyData alone, before the effect runs.
handlerResolved(cfgs, cs, ls, ifs) ==
    [ i \in 1..Len(cfgs) |-> resolveFetched(cfgs[i], cs, ls, ifs) ]

\* C34: when a refresh is answered, the effect changes no entry the
\* handler's map has resolved against the fetched snapshot, and resolving
\* the resulting entries against the same snapshot once more, by the
\* handler's map, by the effect or by both, changes no entry.
C34_ResolutionIdempotent ==
    [][ last'.op = "fetchTopologyOk" =>
          LET handled == handlerResolved(faultConfigs, containers', links',
                                         interfacesByContainer')
          IN  /\ reResolveEffect(handled, containers', links', interfacesByContainer')
                    = handled
              /\ faultConfigs' = handled
              /\ handlerResolved(faultConfigs', containers', links', interfacesByContainer')
                    = faultConfigs'
              /\ reResolveEffect(faultConfigs', containers', links', interfacesByContainer')
                    = faultConfigs'
              /\ setAndStoreTopologyData(faultConfigs', inMemory') = faultConfigs'
      ]_vars

-----------------------------------------------------------------------------
(* MeasurePage: helpers *)

\* What the cleanup of the polling effect leaves of the timers, in the
\* variant without clearInterval.
cleanup_keeping(ts, ref) == ts

\* The cleanup of the polling effect: clearInterval(pollingIntervalRef.current).
cleanup(ts, ref) == ts \ { ref }

\* The timers left by k runs of the polling effect, each preceded by the
\* cleanup of the run before it, the first timer made being `nt`.
RECURSIVE effectTimers(_, _, _, _)
effectTimers(ts, ref, nt, k) ==
    IF k = 0 THEN ts
    ELSE effectTimers(cleanup(ts, ref) \cup { nt }, nt, nt + 1, k - 1)

\* The closure of fetchAndProcessChartData made by the current render.
closure == [ length |-> allMetricsData, isLoadingChartData |-> isLoadingChartData ]

\* isLoadingChartData after the synchronous part of fetchAndProcessChartData,
\* called with the closure c: setIsLoadingChartData(true) when the closure
\* holds no data and is not loading.
loadingAfterCall(c) ==
    IF c.length = 0 /\ ~c.isLoadingChartData THEN TRUE ELSE isLoadingChartData

\* The runs of the polling effect that follow a handler which leaves the
\* length of the data and isLoadingChartData at len2 and loading2:
\* fetchAndProcessChartData is made anew when one of the two changes, and the
\* effect, which depends on it, runs again and calls it; called with no data
\* and not loading, it sets isLoadingChartData, which makes it anew once more.
effectRuns(len2, loading2) ==
    IF len2 = allMetricsData /\ loading2 = isLoadingChartData THEN 0
    ELSE IF len2 = 0 /\ ~loading2 THEN 2
    ELSE 1

\* The state a handler leaves once the renders and effect runs it causes are
\* done: `charts` and `statuses` are the requests the handler itself added to
\* (or took from) those in flight, b the budget it leaves.
ReRender(op, len2, loading2, charts, statuses, b) ==
    LET k == effectRuns(len2, loading2)
    IN  /\ b.effects >= k
        /\ allMetricsData' = len2
        /\ isLoadingChartData' = (IF k = 2 THEN TRUE ELSE loading2)
        /\ chartRequests' = chartRequests + charts + k
        /\ statusRequests' = [ statusRequests EXCEPT !.pending = @ + statuses + k ]
        /\ timers' = effectTimers(timers, pollingIntervalRef, nextTimer, k)
        /\ pollingIntervalRef' = (IF k = 0 THEN pollingIntervalRef ELSE nextTimer + k - 1)
        /\ nextTimer' = nextTimer + k
        /\ budget' = [ b EXCEPT !.effects = @ - k ]
        /\ last' = [ op |-> op, effectRuns |-> k ]

buttonDisabled == isLoadingStatus \/ isOperating

startDisabled == isRunning \/ buttonDisabled

stopDisabled == ~isRunning \/ buttonDisabled

-----------------------------------------------------------------------------
(* MeasurePage: actions *)

\* The page is put on screen: the first run of the effect.
MeasureMount ==
    /\ ~measureMounted
    /\ nextTimer = 1
    /\ measureMounted' = TRUE
    /\ statusRequests' = [ statusRequests EXCEPT !.pending = @ + 1 ]
    /\ chartRequests' = chartRequests + 1
    /\ isLoadingChartData' = loadingAfterCall(closure)
    /\ timers' = timers \cup { nextTimer }
    /\ pollingIntervalRef' = nextTimer
    /\ nextTimer' = nextTimer + 1
    /\ last' = [ op |-> "measureMount", effectRuns |-> 1 ]
    /\ UNCHANGED << isRunning, isLoadingStatus, isOperating, allMetricsData, operations,
                    timeouts, server, budget, injectVars >>

\* The page is taken off screen: the cleanup of the effect.
MeasureUnmount ==
    /\ measureMounted
    /\ measureMounted' = FALSE
    /\ timers' = cleanup(timers, pollingIntervalRef)
    /\ last' = [ op |-> "measureUnmount", effectRuns |-> 0 ]
    /\ UNCHANGED << isRunning, isLoadingStatus, isOperating, isLoadingChartData,
                    allMetricsData, pollingIntervalRef, nextTimer, statusRequests,
                    chartRequests, operations, timeouts, server, budget, injectVars >>

\* The server handles a GET /measure/status: the answer holds its state of
\* that moment.
StatusServed ==
    /\ statusRequests.pending > 0
    /\ statusRequests' =
          IF server.is_running
          THEN [ statusRequests EXCEPT !.pending = @ - 1, !.yes = @ + 1 ]
          ELSE [ statusRequests EXCEPT !.pending = @ - 1, !.no = @ + 1 ]
    /\ last' = [ op |-> "statusServed", effectRuns |-> 0 ]
    /\ UNCHANGED << isRunning, isLoadingStatus, isOperating, isLoadingChartData,
                    allMetricsData, pollingIntervalRef, timers, nextTimer, chartRequests,
                    operations, timeouts, server, measureMounted, budget, injectVars >>

\* fetchMeasurementStatus after its await, the answer is_running arriving;
\* answers arrive in any order.
StatusDelivered(is_running) ==
    /\ measureMounted
    /\ IF is_running THEN statusRequests.yes > 0 ELSE statusRequests.no > 0
    /\ statusRequests' =
          IF is_running THEN [ statusRequests EXCEPT !.yes = @ - 1 ]
          ELSE [ statusRequests EXCEPT !.no = @ - 1 ]
    /\ isRunning' = is_running
    /\ isLoadingStatus' = FALSE
    /\ last' = [ op |-> "statusOk", effectRuns |-> 0 ]
    /\ UNCHANGED << isOperating, isLoadingChartData, allMetricsData, pollingIntervalRef,
                    timers, nextTimer, chartRequests, operations, timeouts, server,
                    measureMounted, budget, injectVars >>

\* fetchMeasurementStatus after its await, the request failed.
StatusFailed ==
    /\ measureMounted
    /\ statusRequests.pending > 0
    /\ budget.statusFailures > 0
    /\ budget' = [ budget EXCEPT !.statusFailures = @ - 1 ]
    /\ statusRequests' = [ statusRequests EXCEPT !.pending = @ - 1 ]
    /\ isLoadingStatus' = FALSE
    /\ last' = [ op |-> "statusFail", effectRuns |-> 0 ]
    /\ UNCHANGED << isRunning, isOperating, isLoadingChartData, allMetricsData,
                    pollingIntervalRef, timers, nextTimer, chartRequests, operations,
                    timeouts, server, measureMounted, injectVars >>

\* fetchAndProcessChartData after its await, answered with the server's data.
ChartDelivered ==
    /\ measureMounted
    /\ chartRequests > 0
    /\ ReRender("chartOk", server.points, FALSE, -1, 0, budget)
    /\ UNCHANGED << isRunning, isLoadingStatus, isOperating, operations, timeouts, server,
                    measureMounted, injectVars >>

\* fetchAndProcessChartData after its await, the request failed.
ChartFailed ==
    /\ measureMounted
    /\ chartRequests > 0
    /\ ReRender("chartFail", allMetricsData, FALSE, -1, 0, budget)
    /\ UNCHANGED << isRunning, isLoadingStatus, isOperating, operations, timeouts, server,
                    measureMounted, injectVars >>

\* The polling timer fires: fetchAndProcessChartData of the render that made
\* the timer, which is the current one.
Tick ==
    /\ measureMounted
    /\ timers # {}
    /\ budget.ticks > 0
    /\ ReRender("tick", allMetricsData, loadingAfterCall(closure), 1, 0,
                [ budget EXCEPT !.ticks = @ - 1 ])
    /\ UNCHANGED << isRunning, isLoadingStatus, isOperating, operations, timeouts, server,
                    measureMounted, injectVars >>

\* The timeout set by a successful start fires: fetchAndProcessChartData of
\* the render in which start was pressed.
TimeoutFires ==
    /\ measureMounted
    /\ Len(timeouts) > 0
    /\ timeouts' = Tail(timeouts)
    /\ ReRender("timeout", allMetricsData, loadingAfterCall(Head(timeouts)), 1, 0, budget)
    /\ UNCHANGED << isRunning, isLoadingStatus, isOperating, operations, server,
                    measureMounted, injectVars >>

\* The start button: handleStart up to its await.
HandleStart ==
    /\ measureMounted
    /\ ~startDisabled
    /\ budget.operations > 0
    /\ budget' = [ budget EXCEPT !.operations = @ - 1 ]
    /\ isOperating' = TRUE
    /\ operations' = Append(operations, [ kind |-> "start", closure |-> closure ])
    /\ last' = [ op |-> "start", effectRuns |-> 0 ]
    /\ UNCHANGED << isRunning, isLoadingStatus, isLoadingChartData, allMetricsData,
                    pollingIntervalRef, timers, nextTimer, statusRequests, chartRequests,
                    timeouts, server, measureMounted, injectVars >>

\* The stop button: handleStop up to its await.
HandleStop ==
    /\ measureMounted
    /\ ~stopDisabled
    /\ budget.operations > 0
    /\ budget' = [ budget EXCEPT !.operations = @ - 1 ]
    /\ isOperating' = TRUE
    /\ operations' = Append(operations, [ kind |-> "stop", closure |-> closure ])
    /\ last' = [ op |-> "stop", effectRuns |-> 0 ]
    /\ UNCHANGED << isRunning, isLoadingStatus, isLoadingChartData, allMetricsData,
                    pollingIntervalRef, timers, nextTimer, statusRequests, chartRequests,
                    timeouts, server, measureMounted, injectVars >>

\* handleStart or handleStop after its await, the server having handled the
\* request and answered with `status`; the finally block asks for the status.
OperationAnswered(status) ==
    /\ measureMounted
    /\ Len(operations) > 0
    /\ LET operation == Head(operations)
           done == status = "success"
       IN  /\ server' = IF ~done THEN server
                        ELSE [ server EXCEPT !.is_running = (operation.kind = "start") ]
           /\ isRunning' = IF operation.kind = "start" /\ done THEN TRUE ELSE isRunning
           /\ timeouts' = IF operation.kind = "start" /\ done
                          THEN Append(timeouts, operation.closure) ELSE timeouts
    /\ operations' = Tail(operations)
    /\ isOperating' = FALSE
    /\ statusRequests' = [ statusRequests EXCEPT !.pending = @ + 1 ]
    /\ last' = [ op |-> "operationOk", effectRuns |-> 0 ]
    /\ UNCHANGED << isLoadingStatus, isLoadingChartData, allMetricsData, pollingIntervalRef,
                    timers, nextTimer, chartRequests, measureMounted, budget, injectVars >>

\* handleStart or handleStop after its await, the request failed.
OperationFailed ==
    /\ measureMounted
    /\ Len(operations) > 0
    /\ operations' = Tail(operations)
    /\ isOperating' = FALSE
    /\ statusRequests' = [ statusRequests EXCEPT !.pending = @ + 1 ]
    /\ last' = [ op |-> "operationFail", effectRuns |-> 0 ]
    /\ UNCHANGED << isRunning, isLoadingStatus, isLoadingChartData, allMetricsData,
                    pollingIntervalRef, timers, nextTimer, chartRequests, timeouts, server,
                    measureMounted, budget, injectVars >>

\* The running measurement appends a point to the server's CSV.
ServerAppends ==
    /\ server.is_running
    /\ server.points < MaxPoints
    /\ server' = [ server EXCEPT !.points = @ + 1 ]
    /\ last' = [ op |-> "serverAppends", effectRuns |-> 0 ]
    /\ UNCHANGED << isRunning, isLoadingStatus, isOperating, isLoadingChartData,
                    allMetricsData, pollingIntervalRef, timers, nextTimer, statusRequests,
                    chartRequests, operations, timeouts, measureMounted, budget,
                    injectVars >>

MeasureNext ==
    \/ MeasureMount
    \/ MeasureUnmount
    \/ StatusServed
    \/ \E is_running \in BOOLEAN : StatusDelivered(is_running)
    \/ StatusFailed
    \/ ChartDelivered
    \/ ChartFailed
    \/ Tick
    \/ TimeoutFires
    \/ HandleStart
    \/ HandleStop
    \/ \E status \in { "success", "error" } : OperationAnswered(status)
    \/ OperationFailed
    \/ ServerAppends

\* MeasurePage on screen, the other page idle.
MeasureInit == Init /\ quota.fetches = MaxFetches

MeasureSpec == MeasureInit /\ [][MeasureNext]_vars

-----------------------------------------------------------------------------
(* MeasurePage: C35, C36, C37 *)

\* No GET /measure/status is in flight.
noStatusRequest == statusRequests = [ pending |-> 0, yes |-> 0, no |-> 0 ]

\* C35: once an operation has completed, no operation is in flight and
\* every status request has been answered, none having failed, the
\* displayed isRunning is the server's running state.
C35_StatusMatchesServer ==
    ( /\ measureMounted
      /\ budget.operations < MaxOperations
      /\ operations = << >>
      /\ noStatusRequest
      /\ budget.statusFailures = MaxStatusFailures
      /\ last.op = "statusOk" )
    => isRunning = server.is_running

\* C36: a request for chart data is issued only when the page is put on
\* screen, when the polling timer fires and when the timeout set by a
\* successful start fires: the other steps run the effect no further time.
C36_ChartRequestsOnlyOnSchedule ==
    [][ last'.op \notin { "measureMount", "tick", "timeout" } => last'.effectRuns = 0 ]_vars

\* C37: at most one polling timer is active, the one pollingIntervalRef
\* holds, and none once the page is off screen; at most one start or stop
\* is in flight; start is pressed only when the measurement is not shown
\* running, the status has loaded and no operation is in flight, stop only
\* when it is shown running, the status has loaded and no operation is in
\* flight.
C37_OneTimerOneOperation ==
    /\ [](/\ Cardinality(timers) <= 1
          /\ measureMounted => timers = { pollingIntervalRef }
          /\ ~measureMounted => timers = {}
          /\ Len(operations) <= 1
          /\ Len(operations) = 1 => isOperating)
    /\ [][ /\ last'.op = "start" =>
                 ~isRunning /\ ~isLoadingStatus /\ ~isOperating /\ operations = << >>
           /\ last'.op = "stop" =>
                 isRunning /\ ~isLoadingStatus /\ ~isOperating /\ operations = << >>
           /\ Len(operations') > Len(operations) => last'.op \in { "start", "stop" }
         ]_vars

\* The effect has run again, replacing the first timer, and a stop is in
\* flight: both buttons are disabled.
C37_Witness ==
    /\ measureMounted
    /\ nextTimer > 2
    /\ timers = { pollingIntervalRef }
    /\ pollingIntervalRef > 1
    /\ Len(operations) = 1
    /\ operations[1].kind = "stop"
    /\ startDisabled
    /\ stopDisabled

=============================================================================
